---- MODULE Spec2Model ----
(***************************************************************************)
(* Dual-execution publicness analysis (symex package).                     *)
(*                                                                         *)
(* The module models                                                       *)
(*   - the symbolic engine SymExecEngine (symexec.py): two symbolic states *)
(*     A and B, instruction evaluation, transmitter equalities, the        *)
(*     publicness queries and the query cache;                             *)
(*   - the solver behind it, as a decision procedure over bit-vectors of   *)
(*     small width (every symbol ranges over 0 .. 2^width - 1);            *)
(*   - the aggregation of per-path verdicts (publicness.py).               *)
(*                                                                         *)
(* Solver expressions are tuples whose first element is the node kind:     *)
(*   <<"bv", v, w>>          bit-vector literal v of width w               *)
(*   <<"sym", name, w>>      bit-vector symbol, name = <<tag, base, id>>   *)
(*   <<"bin", op, a, b>>     add sub mul and or xor shl lshr ashr          *)
(*   <<"zext", n, a>>  <<"sext", n, a>>  <<"extract", hi, lo, a>>          *)
(*   <<"ite", c, a, b>>      c a Boolean expression                        *)
(*   <<"eq", a, b>>  <<"ne", a, b>>  <<"cmp", pred, a, b>>  <<"true">>     *)
(*                           Boolean expressions                           *)
(*   <<"err">>               the construction raised                       *)
(***************************************************************************)
EXTENDS Integers, Sequences, FiniteSets, TLC

None == "None"

\* The engine is constructed with ptr_width = PtrWidth.
PtrWidth == 2

-----------------------------------------------------------------------------
(* Tokens.  Identifiers are strings; the tokens of the model are listed    *)
(* here with what the code parses out of each.                             *)

ConstIntTokens ==
    { "const:i1:0", "const:i1:1", "const:i2:0", "const:i2:1", "const:i2:2",
      "const:i2:3" }

ConstNullTokens == { "const:null", "const:undef", "const:poison" }

\* token.startswith("const:")
IsConstToken(tok) == tok \in ConstIntTokens \cup ConstNullTokens

\* the W of const:iW:V
ConstTokWidth(tok) ==
    IF tok \in { "const:i1:0", "const:i1:1" } THEN 1 ELSE 2

\* the V of const:iW:V
ConstTokValue(tok) ==
    CASE tok \in { "const:i1:0", "const:i2:0" } -> 0
      [] tok \in { "const:i1:1", "const:i2:1" } -> 1
      [] tok = "const:i2:2" -> 2
      [] OTHER -> 3

_parse_ty_width(ty, ptr_width) ==
    CASE ty = None -> ptr_width
      [] ty = "i1" -> 1
      [] ty = "i2" -> 2
      [] OTHER -> ptr_width

-----------------------------------------------------------------------------
(* Bit-vector arithmetic on naturals below 2^w.                            *)

RECURSIVE Pow2(_)
Pow2(n) == IF n <= 0 THEN 1 ELSE 2 * Pow2(n - 1)

RECURSIVE BitOp(_, _, _, _)
BitOp(op, a, b, w) ==
    IF w = 0 THEN 0
    ELSE LET x == a % 2
             y == b % 2
             r == CASE op = "and" -> x * y
                    [] op = "or" -> IF x + y > 0 THEN 1 ELSE 0
                    [] OTHER -> (x + y) % 2
         IN  r + 2 * BitOp(op, a \div 2, b \div 2, w - 1)

Err == <<"err">>
IsErr(e) == e[1] = "err"
IsBool(e) == e[1] \in { "eq", "ne", "cmp", "true" }
IsBv(e) == e[1] \in { "bv", "sym", "bin", "zext", "sext", "extract", "ite" }

RECURSIVE Size(_)
Size(e) ==
    CASE e[1] = "bv" -> e[3]
      [] e[1] = "sym" -> e[3]
      [] e[1] = "bin" -> Size(e[3])
      [] e[1] = "zext" -> e[2] + Size(e[3])
      [] e[1] = "sext" -> e[2] + Size(e[3])
      [] e[1] = "extract" -> e[2] - e[3] + 1
      [] e[1] = "ite" -> Size(e[3])
      [] OTHER -> 0

\* z3.BitVecVal(v, w)
BitVecVal(v, w) == IF w <= 0 THEN Err ELSE <<"bv", v % Pow2(w), w>>

\* z3.BitVec(name, w)
BitVec(name, w) == IF w <= 0 THEN Err ELSE <<"sym", name, w>>

\* a <op> b on z3 bit-vectors: the sorts must agree
BinExpr(op, a, b) ==
    IF IsErr(a) \/ IsErr(b) THEN Err
    ELSE IF ~(IsBv(a) /\ IsBv(b)) \/ Size(a) # Size(b) THEN Err
    ELSE <<"bin", op, a, b>>

ZeroExt(n, a) ==
    IF IsErr(a) \/ ~IsBv(a) \/ n < 0 THEN Err
    ELSE <<"zext", n, a>>

SignExt(n, a) ==
    IF IsErr(a) \/ ~IsBv(a) \/ n < 0 THEN Err
    ELSE <<"sext", n, a>>

Extract(hi, lo, a) ==
    IF IsErr(a) \/ ~IsBv(a) \/ hi < lo \/ hi >= Size(a) THEN Err
    ELSE <<"extract", hi, lo, a>>

\* a == b and a != b on z3 expressions of one sort
EqExpr(a, b) ==
    IF IsErr(a) \/ IsErr(b) THEN Err
    ELSE IF IsBv(a) /\ IsBv(b) /\ Size(a) = Size(b) THEN <<"eq", a, b>>
    ELSE IF IsBool(a) /\ IsBool(b) THEN <<"eq", a, b>>
    ELSE Err

NeExpr(a, b) ==
    IF IsErr(EqExpr(a, b)) THEN Err ELSE <<"ne", a, b>>

\* z3.If(c, a, b)
IfExpr(c, a, b) ==
    IF IsErr(c) \/ IsErr(a) \/ IsErr(b) THEN Err
    ELSE IF ~IsBool(c) \/ ~(IsBv(a) /\ IsBv(b)) \/ Size(a) # Size(b) THEN Err
    ELSE <<"ite", c, a, b>>

\* The symbols of an expression, each with its sort: <<name, width>>.
RECURSIVE Syms(_)
Syms(e) ==
    CASE e[1] = "sym" -> { <<e[2], e[3]>> }
      [] e[1] = "bin" -> Syms(e[3]) \cup Syms(e[4])
      [] e[1] \in { "zext", "sext" } -> Syms(e[3])
      [] e[1] = "extract" -> Syms(e[4])
      [] e[1] = "ite" -> Syms(e[2]) \cup Syms(e[3]) \cup Syms(e[4])
      [] e[1] \in { "eq", "ne" } -> Syms(e[2]) \cup Syms(e[3])
      [] e[1] = "cmp" -> Syms(e[3]) \cup Syms(e[4])
      [] OTHER -> {}

ShiftVal(op, x, y, w) ==
    LET neg == x >= Pow2(w - 1)
    IN  CASE op = "shl" -> IF y >= w THEN 0 ELSE (x * Pow2(y)) % Pow2(w)
          [] op = "lshr" -> IF y >= w THEN 0 ELSE x \div Pow2(y)
          [] OTHER ->
               IF y >= w THEN (IF neg THEN Pow2(w) - 1 ELSE 0)
               ELSE (x \div Pow2(y))
                    + (IF neg THEN Pow2(w) - Pow2(w - y) ELSE 0)

\* Signed value of a bit-vector value x of width w.
Signed(x, w) == IF x >= Pow2(w - 1) THEN x - Pow2(w) ELSE x

CmpVal(pred, x, y, w) ==
    CASE pred = "slt" -> Signed(x, w) < Signed(y, w)
      [] pred = "sle" -> Signed(x, w) <= Signed(y, w)
      [] pred = "sgt" -> Signed(x, w) > Signed(y, w)
      [] pred = "sge" -> Signed(x, w) >= Signed(y, w)
      [] pred = "ult" -> x < y
      [] pred = "ule" -> x <= y
      [] pred = "ugt" -> x > y
      [] OTHER -> x >= y

\* The value of an expression under an assignment m of its symbols:
\* a natural for a bit-vector, a Boolean for a Boolean expression.
RECURSIVE Val(_, _)
Val(e, m) ==
    CASE e[1] = "bv" -> e[2]
      [] e[1] = "sym" -> m[<<e[2], e[3]>>]
      [] e[1] = "bin" ->
           LET w == Size(e[3])
               x == Val(e[3], m)
               y == Val(e[4], m)
           IN  CASE e[2] = "add" -> (x + y) % Pow2(w)
                 [] e[2] = "sub" -> (x - y) % Pow2(w)
                 [] e[2] = "mul" -> (x * y) % Pow2(w)
                 [] e[2] \in { "and", "or", "xor" } -> BitOp(e[2], x, y, w)
                 [] OTHER -> ShiftVal(e[2], x, y, w)
      [] e[1] = "zext" -> Val(e[3], m)
      [] e[1] = "sext" ->
           LET w == Size(e[3])
               x == Val(e[3], m)
           IN  IF x >= Pow2(w - 1)
               THEN x + (Pow2(w + e[2]) - Pow2(w))
               ELSE x
      [] e[1] = "extract" -> (Val(e[4], m) \div Pow2(e[3])) % Pow2(e[2] - e[3] + 1)
      [] e[1] = "ite" -> IF Val(e[2], m) THEN Val(e[3], m) ELSE Val(e[4], m)
      [] e[1] = "eq" -> Val(e[2], m) = Val(e[3], m)
      [] e[1] = "ne" -> Val(e[2], m) # Val(e[3], m)
      [] e[1] = "cmp" -> CmpVal(e[2], Val(e[3], m), Val(e[4], m), Size(e[3]))
      [] OTHER -> TRUE

SymsOfAll(exprs) == UNION { Syms(exprs[i]) : i \in DOMAIN exprs }

\* solver.check() on a sequence of assertions: is there an assignment of the
\* symbols under which every assertion holds?
Satisfiable(exprs) ==
    LET S == SymsOfAll(exprs)
        top == IF S = {} THEN 0
               ELSE CHOOSE w \in { s[2] : s \in S } : \A s \in S : s[2] <= w
    IN  \E m \in [S -> 0 .. (Pow2(top) - 1)] :
            /\ \A s \in S : m[s] < Pow2(s[2])
            /\ \A i \in DOMAIN exprs : Val(exprs[i], m)

-----------------------------------------------------------------------------
(* Symbolic states and instruction evaluation (symexec.py).                *)
(* An evaluation step returns [st |-> the state after it, val |-> its      *)
(* value]; val = Err means the step raised, NoVal that it returned None.   *)

NoVal == <<"none">>
NoTx == [kind |-> None, which |-> 0]
EmptyMap == [k \in {} |-> NoVal]

Bind(f, k, v) == [x \in (DOMAIN f) \cup {k} |-> IF x = k THEN v ELSE f[x]]

SymState(tag) == [tag |-> tag, env |-> EmptyMap, mem |-> EmptyMap, fresh_id |-> 0]

_const_to_bv(const_id, width) ==
    LET w == ConstTokWidth(const_id)
    IN  BitVecVal(ConstTokValue(const_id), IF w # 0 THEN w ELSE width)

_parse_const(const_id, width, ptr_width) ==
    IF const_id \in ConstIntTokens THEN _const_to_bv(const_id, width)
    ELSE BitVecVal(0, ptr_width)

\* _as_bv without the zero-extension of a narrower bit-vector
_as_bv_NoWiden(expr, width) ==
    IF IsErr(expr) THEN Err
    ELSE IF IsBv(expr) THEN
        IF Size(expr) <= width THEN expr
        ELSE Extract(width - 1, 0, expr)
    ELSE IF IsBool(expr) THEN IfExpr(expr, BitVecVal(1, width), BitVecVal(0, width))
    ELSE expr

_as_bv(expr, width) ==
    IF IsErr(expr) THEN Err
    ELSE IF IsBv(expr) THEN
        IF Size(expr) = width THEN expr
        ELSE IF Size(expr) < width THEN ZeroExt(width - Size(expr), expr)
        ELSE Extract(width - 1, 0, expr)
    ELSE IF IsBool(expr) THEN IfExpr(expr, BitVecVal(1, width), BitVecVal(0, width))
    ELSE expr

_icmp_pred(pred, a, b, signed) ==
    IF pred \in { "eq", "oeq", "ueq" } THEN EqExpr(a, b)
    ELSE IF pred \in { "ne", "one", "une" } THEN NeExpr(a, b)
    ELSE IF IsErr(EqExpr(a, b)) THEN Err
    ELSE IF signed /\ pred \in { "slt", "sle", "sgt", "sge" } THEN <<"cmp", pred, a, b>>
    ELSE IF ~signed /\ pred \in { "ult", "ule", "ugt", "uge" } THEN <<"cmp", pred, a, b>>
    ELSE <<"true">>

\* _fresh without the state's tag in the name
_fresh_Untagged(st, name, width) ==
    [st |-> [st EXCEPT !.fresh_id = @ + 1],
     val |-> BitVec(<<"", name, st.fresh_id>>, width)]

_fresh(st, name, width) ==
    [st |-> [st EXCEPT !.fresh_id = @ + 1],
     val |-> BitVec(<<st.tag, name, st.fresh_id>>, width)]

\* _eval_operand without its constant branch: a constant token is minted as a symbol
_eval_operand_NoConst(st, operand_id, width, ptr_width) ==
    IF operand_id \in DOMAIN st.env
    THEN [st |-> st, val |-> st.env[operand_id]]
    ELSE [st |-> [st EXCEPT !.fresh_id = @ + 1,
                            !.env = Bind(@, operand_id,
                                         BitVec(<<st.tag, <<"u", operand_id>>, st.fresh_id>>,
                                                width))],
          val |-> BitVec(<<st.tag, <<"u", operand_id>>, st.fresh_id>>, width)]

_eval_operand(st, operand_id, width, ptr_width) ==
    IF IsConstToken(operand_id)
    THEN [st |-> st, val |-> _parse_const(operand_id, width, ptr_width)]
    ELSE IF operand_id \in DOMAIN st.env
    THEN [st |-> st, val |-> st.env[operand_id]]
    ELSE LET f == _fresh(st, <<"u", operand_id>>, width)
         IN  [st |-> [f.st EXCEPT !.env = Bind(@, operand_id, f.val)], val |-> f.val]

\* get_op(idx) of _eval_inst; idx counts from 0 as in the source.
get_op(inst, st, exec_tag, idx, def_width, ptr_width) ==
    IF idx >= Len(inst.uses)
    THEN _fresh(st, <<"missing", exec_tag>>, def_width)
    ELSE LET width == IF Len(inst.use_tys) > 0 /\ idx < Len(inst.use_tys)
                      THEN _parse_ty_width(inst.use_tys[idx + 1], ptr_width)
                      ELSE def_width
         IN  _eval_operand(st, inst.uses[idx + 1], width, ptr_width)

\* "if def_id: state.env[def_id] = expr; return expr"
BindDef(st, def_id, expr) ==
    [st |-> IF def_id # None /\ ~IsErr(expr)
            THEN [st EXCEPT !.env = Bind(@, def_id, expr)] ELSE st,
     val |-> expr]

ArithOps == { "add", "sub", "mul", "and", "or", "xor", "shl", "lshr", "ashr" }

\* The first even index i < len(uses) - 1 with uses[i + 1] = prev_bb, or -1.
\* PhiChosenIdx without the search for the previous block: always the fallback
PhiChosenIdx_First(inst, prev_bb) ==
    IF Len(inst.uses) >= 2 THEN 0 ELSE -1

PhiChosenIdx(inst, prev_bb) ==
    LET n == Len(inst.uses)
        hits == { i \in 0 .. (n - 2) : i % 2 = 0 /\ inst.uses[i + 2] = prev_bb }
    IN  IF n = 0 THEN -1
        ELSE IF prev_bb # None /\ hits # {}
        THEN CHOOSE i \in hits : \A j \in hits : i <= j
        ELSE IF n >= 2 THEN 0
        ELSE -1

_eval_inst(inst, st, exec_tag, prev_bb, ptr_width) ==
    LET op == inst.op
        def_id == inst.def_id
        def_width == _parse_ty_width(inst.def_ty, ptr_width)
        g0 == get_op(inst, st, exec_tag, 0, def_width, ptr_width)
        g1 == get_op(inst, g0.st, exec_tag, 1, def_width, ptr_width)
        g2 == get_op(inst, g1.st, exec_tag, 2, def_width, ptr_width)
    IN
    CASE op = "alloca" ->
           IF def_id # None
           THEN LET f == _fresh(st, <<"alloca", exec_tag>>, ptr_width)
                IN  [st |-> BindDef(f.st, def_id, f.val).st,
                     val |-> IF IsErr(f.val) THEN Err ELSE NoVal]
           ELSE [st |-> st, val |-> NoVal]
      [] op = "load" ->
           LET ptr_id == IF Len(inst.uses) > 0 THEN inst.uses[1] ELSE "unknown_ptr"
               f == _fresh(st, <<"load", exec_tag, ptr_id>>, def_width)
               r == IF ptr_id \in DOMAIN st.mem
                    THEN [st |-> st, val |-> st.mem[ptr_id]]
                    ELSE [st |-> IF IsErr(f.val) THEN f.st
                                 ELSE [f.st EXCEPT !.mem = Bind(@, ptr_id, f.val)],
                          val |-> f.val]
           IN  BindDef(r.st, def_id, r.val)
      [] op = "store" ->
           IF Len(inst.uses) >= 2
           THEN [st |-> IF IsErr(g0.val) THEN g0.st
                        ELSE [g0.st EXCEPT !.mem = Bind(@, inst.uses[2], g0.val)],
                 val |-> IF IsErr(g0.val) THEN Err ELSE NoVal]
           ELSE [st |-> st, val |-> NoVal]
      [] op \in ArithOps ->
           LET a == _as_bv(g0.val, def_width)
               b == _as_bv(g1.val, def_width)
           IN  BindDef(g1.st, def_id, BinExpr(op, a, b))
      [] op = "icmp" ->
           \* inst.icmp_pred: TraceInst (models.py) declares no such field
           IF "icmp_pred" \notin DOMAIN inst THEN [st |-> st, val |-> Err]
           ELSE LET pred == IF inst.icmp_pred = None THEN "eq" ELSE inst.icmp_pred
                    a == _as_bv(g0.val, def_width)
                    b == _as_bv(g1.val, def_width)
                    signed == pred \in { "slt", "sle", "sgt", "sge" }
                    cond == _icmp_pred(pred, a, b, signed)
                IN  BindDef(g1.st, def_id,
                            IfExpr(cond, BitVecVal(1, 1), BitVecVal(0, 1)))
      [] op \in { "zext", "sext" } ->
           LET a == g0.val
               from_width == IF IsErr(a) THEN 1 ELSE IF IsBv(a) THEN Size(a) ELSE 1
               to_width == def_width
               expr == IF op = "zext"
                       THEN ZeroExt(to_width - from_width, _as_bv(a, from_width))
                       ELSE SignExt(to_width - from_width, _as_bv(a, from_width))
           IN  BindDef(g0.st, def_id, expr)
      [] op = "trunc" ->
           BindDef(g0.st, def_id, _as_bv(g0.val, def_width))
      [] op = "select" ->
           LET cond_b == _as_bv(g0.val, 1)
               expr == IfExpr(EqExpr(cond_b, BitVecVal(1, 1)), g1.val, g2.val)
           IN  BindDef(g2.st, def_id, expr)
      [] op = "getelementptr" ->
           LET n == Len(inst.uses)
               ix == IF n > 0
                     THEN get_op(inst, g0.st, exec_tag, n - 1, def_width, ptr_width)
                     ELSE _fresh(g0.st, <<"idx">>, ptr_width)
               expr == BinExpr("add", _as_bv(g0.val, ptr_width), _as_bv(ix.val, ptr_width))
           IN  BindDef(ix.st, def_id, expr)
      [] op = "phi" ->
           LET chosen_idx == PhiChosenIdx(inst, prev_bb)
               width == IF chosen_idx >= 0 /\ Len(inst.use_tys) > 0
                           /\ chosen_idx < Len(inst.use_tys)
                        THEN _parse_ty_width(inst.use_tys[chosen_idx + 1], ptr_width)
                        ELSE def_width
               r == IF chosen_idx >= 0
                    THEN _eval_operand(st, inst.uses[chosen_idx + 1], width, ptr_width)
                    ELSE _fresh(st, <<"phi", exec_tag>>, def_width)
           IN  BindDef(r.st, def_id, r.val)
      [] op = "call" ->
           IF def_id # None
           THEN LET f == _fresh(st, <<"call", exec_tag>>, def_width)
                IN  [st |-> BindDef(f.st, def_id, f.val).st,
                     val |-> IF IsErr(f.val) THEN Err ELSE NoVal]
           ELSE [st |-> st, val |-> NoVal]
      [] OTHER ->
           IF def_id # None
           THEN LET f == _fresh(st, <<"u", exec_tag>>, def_width)
                IN  BindDef(f.st, def_id, f.val)
           ELSE [st |-> st, val |-> NoVal]

-----------------------------------------------------------------------------
(* Path-condition encoder of the engine (symexec.py).  A textual condition *)
(* is modelled after its split on " && ": a sequence of parts, each        *)
(* [lhs, op, rhs] with op "==" or "!=", or any other op for a part that    *)
(* holds neither.                                                          *)

NoWidth == -1

_token_hint(token, ptr_width) ==
    IF token \in ConstIntTokens THEN <<"bv", ConstTokWidth(token)>>
    ELSE IF token \in ConstNullTokens THEN <<"bv", ptr_width>>
    ELSE <<"var", NoWidth>>

_fresh_typed(st, name, prefer_kind, prefer_width, ptr_width) ==
    _fresh(st, name, IF prefer_width # NoWidth THEN prefer_width ELSE ptr_width)

_eval_condition_token(st, token, prefer_kind, prefer_width, ptr_width) ==
    IF IsConstToken(token)
    THEN [st |-> st,
          val |-> _parse_const(token,
                               IF prefer_width \in { NoWidth, 0 } THEN ptr_width
                               ELSE prefer_width,
                               ptr_width)]
    ELSE IF token \in DOMAIN st.env
    THEN [st |-> st,
          val |-> IF prefer_kind = "bv"
                  THEN _as_bv(st.env[token],
                              IF prefer_width # NoWidth THEN prefer_width ELSE ptr_width)
                  ELSE st.env[token]]
    ELSE LET f == _fresh_typed(st, <<"pc", token>>, prefer_kind, prefer_width, ptr_width)
         IN  [st |-> [f.st EXCEPT !.env = Bind(@, token, f.val)], val |-> f.val]

\* lines 240-249: the widening of unequal widths, then the comparison
CmpFinish(cmp_op, lv, re) ==
    LET differ == ~IsErr(lv) /\ ~IsErr(re.val) /\ IsBv(lv) /\ IsBv(re.val)
                  /\ Size(lv) # Size(re.val)
        width == IF Size(lv) > Size(re.val) THEN Size(lv) ELSE Size(re.val)
    IN  [st |-> re.st,
         val |-> CASE cmp_op = "==" ->
                        IF differ THEN EqExpr(_as_bv(lv, width), _as_bv(re.val, width))
                        ELSE EqExpr(lv, re.val)
                   [] cmp_op = "!=" ->
                        IF differ THEN NeExpr(_as_bv(lv, width), _as_bv(re.val, width))
                        ELSE NeExpr(lv, re.val)
                   [] OTHER -> Err]

\* lines 236-238: the right token, evaluated on the state the left one left
CmpRhs(rhs, rhs_kind, rhs_width, cmp_op, ptr_width, le) ==
    CmpFinish(cmp_op, le.val,
              _eval_condition_token(le.st, rhs, rhs_kind, rhs_width, ptr_width))

\* lines 223-235: l and r are the hints of the two tokens
CmpHinted(st, lhs, rhs, cmp_op, ptr_width, l, r) ==
    LET lhs_kind0 == IF l[1] = "var" /\ r[1] # "var" THEN r[1] ELSE l[1]
        rhs_kind0 == IF r[1] = "var" /\ l[1] # "var" THEN l[1] ELSE r[1]
        lhs_width == IF lhs_kind0 = "bv" /\ l[2] = NoWidth THEN r[2] ELSE l[2]
        rhs_width == IF rhs_kind0 = "bv" /\ r[2] = NoWidth THEN l[2] ELSE r[2]
    IN  CmpRhs(rhs, IF rhs_kind0 = "var" THEN "bv" ELSE rhs_kind0, rhs_width, cmp_op,
               ptr_width,
               _eval_condition_token(st, lhs,
                                     IF lhs_kind0 = "var" THEN "bv" ELSE lhs_kind0,
                                     lhs_width, ptr_width))

_build_cmp_expr(st, lhs, rhs, cmp_op, ptr_width) ==
    CmpHinted(st, lhs, rhs, cmp_op, ptr_width,
              _token_hint(lhs, ptr_width), _token_hint(rhs, ptr_width))

\* The parts of all conditions, in order.
RECURSIVE Parts(_)
Parts(path_conditions) ==
    IF path_conditions = <<>> THEN <<>>
    ELSE Head(path_conditions) \o Parts(Tail(path_conditions))

\* _add_path_conditions on one state: [st, added, raised], added the
\* assertions handed to solver.add_expr before the first part that raises.
RECURSIVE AddParts(_, _, _, _)
AddPart(part, rest, added, ptr_width, c) ==
    IF part.op \notin { "==", "!=" } \/ IsErr(c.val)
    THEN [st |-> c.st, added |-> added, raised |-> TRUE]
    ELSE AddParts(c.st, rest, Append(added, c.val), ptr_width)

AddParts(st, parts, added, ptr_width) ==
    IF parts = <<>> THEN [st |-> st, added |-> added, raised |-> FALSE]
    ELSE AddPart(Head(parts), Tail(parts), added, ptr_width,
                 _build_cmp_expr(st, Head(parts).lhs, Head(parts).rhs, Head(parts).op,
                                 ptr_width))

\* expr.get(key) of a structured condition node, None when the key is missing
JsonGet(expr, key) == IF key \in DOMAIN expr THEN expr[key] ELSE None

\* lines 261-262: the comparison handed to solver.add_expr
JsonCmp(added, c) ==
    IF IsErr(c.val) THEN [st |-> c.st, added |-> added, raised |-> TRUE]
    ELSE [st |-> c.st, added |-> Append(added, c.val), raised |-> FALSE]

\* _add_path_condition_json on one state: [st, added, raised]. A missing lhs
\* or rhs is not a string and raises; an empty string is a token like any other.
RECURSIVE _add_path_condition_json(_, _, _, _)
RECURSIVE JsonTerms(_, _, _, _)
_add_path_condition_json(st, expr, added, ptr_width) ==
    IF JsonGet(expr, "op") = "and"
    THEN JsonTerms(st, IF "terms" \in DOMAIN expr THEN expr.terms ELSE <<>>, added,
                   ptr_width)
    ELSE IF JsonGet(expr, "op") \in { "==", "!=" }
    THEN IF "lhs" \notin DOMAIN expr \/ "rhs" \notin DOMAIN expr
         THEN [st |-> st, added |-> added, raised |-> TRUE]
         ELSE JsonCmp(added, _build_cmp_expr(st, expr.lhs, expr.rhs, expr.op, ptr_width))
    ELSE [st |-> st, added |-> added, raised |-> TRUE]

JsonTermsRest(r, rest, ptr_width) ==
    IF r.raised THEN r ELSE JsonTerms(r.st, rest, r.added, ptr_width)

\* the loop over terms (lines 254-255) and over the conditions (lines 275-276)
JsonTerms(st, terms, added, ptr_width) ==
    IF terms = <<>> THEN [st |-> st, added |-> added, raised |-> FALSE]
    ELSE JsonTermsRest(_add_path_condition_json(st, Head(terms), added, ptr_width),
                       Tail(terms), ptr_width)

\* lines 278-288: the textual conditions
_add_path_conditions(st, path_conditions, ptr_width) ==
    AddParts(st, Parts(path_conditions), <<>>, ptr_width)

\* lines 274-288: the structured conditions when there are any, else the text
AddPathConditions(st, conds, conds_json, ptr_width) ==
    IF conds_json # <<>> THEN JsonTerms(st, conds_json, <<>>, ptr_width)
    ELSE _add_path_conditions(st, conds, ptr_width)

-----------------------------------------------------------------------------
(* The query cache key.  expr.sexpr() prints a symbol by its name alone;   *)
(* solver.sexpr() prints the declarations of the symbols of the assertions *)
(* (name and sort) followed by the assertions.  SHA-256 is taken to be     *)
(* injective, so a digest is modelled by the text it is the digest of.     *)

RECURSIVE Sexpr(_)
Sexpr(e) ==
    CASE e[1] = "sym" -> <<"sym", e[2]>>
      [] e[1] = "bin" -> <<"bin", e[2], Sexpr(e[3]), Sexpr(e[4])>>
      [] e[1] \in { "zext", "sext" } -> <<e[1], e[2], Sexpr(e[3])>>
      [] e[1] = "extract" -> <<"extract", e[2], e[3], Sexpr(e[4])>>
      [] e[1] = "ite" -> <<"ite", Sexpr(e[2]), Sexpr(e[3]), Sexpr(e[4])>>
      [] e[1] \in { "eq", "ne" } -> <<e[1], Sexpr(e[2]), Sexpr(e[3])>>
      [] e[1] = "cmp" -> <<"cmp", e[2], Sexpr(e[3]), Sexpr(e[4])>>
      [] OTHER -> e

SolverSexpr(exprs) ==
    [decls |-> SymsOfAll(exprs), asserts |-> [i \in DOMAIN exprs |-> Sexpr(exprs[i])]]

QueryKey(base, diff_expr) == [base |-> base, diff |-> Sexpr(diff_expr)]

-----------------------------------------------------------------------------
(* Aggregation of per-path verdicts (publicness.py).  Verdicts are the     *)
(* strings True, False and None.  The list returned by                     *)
(* aggregate_public_at_point is modelled as the set of its records.        *)

True == "True"
False == "False"

PathPublicness(fn, path_id, pp, value, public) ==
    [fn |-> fn, path_id |-> path_id, pp |-> pp, value |-> value, public |-> public]

\* CfgPath.path_id = None
NoPathId == -1

Last(S) == CHOOSE i \in S : \A j \in S : j <= i

\* The path ids, in path order, of the paths whose pp_seq holds pp.
RECURSIVE DerivedIds(_, _, _)
DerivedIds(paths, fn, pp) ==
    IF paths = <<>> THEN <<>>
    ELSE LET p == Head(paths)
             rest == DerivedIds(Tail(paths), fn, pp)
         IN  IF p.path_id # NoPathId /\ p.fn = fn
                /\ \E i \in DOMAIN p.pp_seq : p.pp_seq[i] = pp
             THEN <<p.path_id>> \o rest
             ELSE rest

\* (fn, pp) -> [path_ids, truncated]
_build_pp_paths(paths, pp_coverage) ==
    IF pp_coverage # <<>>
    THEN LET keys == { <<pp_coverage[i].fn, pp_coverage[i].pp>> : i \in DOMAIN pp_coverage }
             rec(k) == pp_coverage[Last({ i \in DOMAIN pp_coverage :
                                           <<pp_coverage[i].fn, pp_coverage[i].pp>> = k })]
         IN  [k \in keys |-> [path_ids |-> rec(k).path_ids, truncated |-> rec(k).truncated]]
    ELSE LET keys == UNION { { <<paths[i].fn, paths[i].pp_seq[j]>> :
                                 j \in DOMAIN paths[i].pp_seq } :
                             i \in { n \in DOMAIN paths : paths[n].path_id # NoPathId } }
         IN  [k \in keys |-> [path_ids |-> DerivedIds(paths, k[1], k[2]),
                              truncated |-> FALSE]]

\* results[(fn, pp, value)]: path_id -> the last verdict recorded for it
PerPath(path_results, key) ==
    LET hits(pid) == { i \in DOMAIN path_results :
                         /\ <<path_results[i].fn, path_results[i].pp,
                              path_results[i].value>> = key
                         /\ path_results[i].path_id = pid }
        pids == { path_results[i].path_id : i \in DOMAIN path_results }
    IN  [pid \in { q \in pids : hits(q) # {} } |-> path_results[Last(hits(pid))].public]

\* Decide with the policy branch tested before any_false
Decide_PolicyFirst(path_ids, truncated, per_path, missing_policy) ==
    LET missing == Cardinality({ i \in DOMAIN path_ids : path_ids[i] \notin DOMAIN per_path })
        any_false == \E i \in DOMAIN path_ids :
                        path_ids[i] \in DOMAIN per_path /\ per_path[path_ids[i]] = False
        any_unknown == missing > 0
                       \/ \E i \in DOMAIN path_ids :
                            path_ids[i] \in DOMAIN per_path /\ per_path[path_ids[i]] = None
    IN  [public |-> IF any_unknown \/ truncated
                    THEN (CASE missing_policy = "public" -> True
                            [] missing_policy = "secret" -> False
                            [] OTHER -> None)
                    ELSE IF any_false THEN False
                    ELSE True,
         missing |-> missing]

\* Decide with false only when every covering path is false
Decide_AllFalse(path_ids, truncated, per_path, missing_policy) ==
    LET missing == Cardinality({ i \in DOMAIN path_ids : path_ids[i] \notin DOMAIN per_path })
        all_false == \A i \in DOMAIN path_ids :
                        path_ids[i] \in DOMAIN per_path /\ per_path[path_ids[i]] = False
        any_unknown == missing > 0
                       \/ \E i \in DOMAIN path_ids :
                            path_ids[i] \in DOMAIN per_path /\ per_path[path_ids[i]] = None
    IN  [public |-> IF all_false THEN False
                    ELSE IF any_unknown \/ truncated
                    THEN (CASE missing_policy = "public" -> True
                            [] missing_policy = "secret" -> False
                            [] OTHER -> None)
                    ELSE True,
         missing |-> missing]

\* Decide with the secret policy applied whether or not anything is missing
Decide_SecretWins(path_ids, truncated, per_path, missing_policy) ==
    LET missing == Cardinality({ i \in DOMAIN path_ids : path_ids[i] \notin DOMAIN per_path })
        any_false == \E i \in DOMAIN path_ids :
                        path_ids[i] \in DOMAIN per_path /\ per_path[path_ids[i]] = False
        any_unknown == missing > 0
                       \/ \E i \in DOMAIN path_ids :
                            path_ids[i] \in DOMAIN per_path /\ per_path[path_ids[i]] = None
    IN  [public |-> IF any_false \/ missing_policy = "secret" THEN False
                    ELSE IF any_unknown \/ truncated
                    THEN (CASE missing_policy = "public" -> True
                            [] OTHER -> None)
                    ELSE True,
         missing |-> missing]

\* Decide without the truncated flag
Decide_NoTruncation(path_ids, truncated, per_path, missing_policy) ==
    LET missing == Cardinality({ i \in DOMAIN path_ids : path_ids[i] \notin DOMAIN per_path })
        any_false == \E i \in DOMAIN path_ids :
                        path_ids[i] \in DOMAIN per_path /\ per_path[path_ids[i]] = False
        any_unknown == missing > 0
                       \/ \E i \in DOMAIN path_ids :
                            path_ids[i] \in DOMAIN per_path /\ per_path[path_ids[i]] = None
    IN  [public |-> IF any_false THEN False
                    ELSE IF any_unknown
                    THEN (CASE missing_policy = "public" -> True
                            [] missing_policy = "secret" -> False
                            [] OTHER -> None)
                    ELSE True,
         missing |-> missing]

\* The decision for one (fn, pp, value): lines 93-116.
Decide(path_ids, truncated, per_path, missing_policy) ==
    LET missing == Cardinality({ i \in DOMAIN path_ids : path_ids[i] \notin DOMAIN per_path })
        any_false == \E i \in DOMAIN path_ids :
                        path_ids[i] \in DOMAIN per_path /\ per_path[path_ids[i]] = False
        any_unknown == missing > 0
                       \/ \E i \in DOMAIN path_ids :
                            path_ids[i] \in DOMAIN per_path /\ per_path[path_ids[i]] = None
    IN  [public |-> IF any_false THEN False
                    ELSE IF any_unknown \/ truncated
                    THEN (CASE missing_policy = "public" -> True
                            [] missing_policy = "secret" -> False
                            [] OTHER -> None)
                    ELSE True,
         missing |-> missing]

aggregate_public_at_point(paths, pp_coverage, path_results, missing_policy) ==
    LET pp_paths == _build_pp_paths(paths, pp_coverage)
        keys == { <<path_results[i].fn, path_results[i].pp, path_results[i].value>> :
                    i \in DOMAIN path_results }
    IN  { LET cov == pp_paths[<<k[1], k[2]>>]
              d == Decide(cov.path_ids, cov.truncated, PerPath(path_results, k),
                          missing_policy)
          IN  [fn |-> k[1], pp |-> k[2], value |-> k[3], public |-> d.public,
               total_paths |-> Len(cov.path_ids), missing_paths |-> d.missing,
               truncated |-> cov.truncated] :
          k \in { x \in keys : <<x[1], x[2]>> \in DOMAIN pp_paths } }

-----------------------------------------------------------------------------
(* Inputs: the traces of a few functions.  A path handed to analyze_path   *)
(* is a prefix of a function's trace, with any subset of the trace's       *)
(* transmitter tags present.                                               *)

MaxCalls == 2
MaxUnknown == 1
MaxResults == 3

TraceInst(fn, bb, pp, op, def_id, uses, tx, def_ty, use_tys) ==
    [fn |-> fn, bb |-> bb, pp |-> pp, op |-> op, def_id |-> def_id, uses |-> uses,
     tx |-> tx, def_ty |-> def_ty, use_tys |-> use_tys]

TxInfo(kind, which) == [kind |-> kind, which |-> which]

\* f: a load of s, then s handed to a transmitter
ProgLeak ==
    << TraceInst("f", "entry", "pp1", "load", "s", <<"p">>, NoTx, "i2", <<>>),
       TraceInst("f", "entry", "pp2", "call", "sink", <<"s">>, TxInfo("leak", 0),
                 None, <<>>) >>

\* g: an add of two constants
ProgConst ==
    << TraceInst("g", "entry", "pp1", "add", "d", <<"const:i2:1", "const:i2:2">>,
                 NoTx, "i2", <<"i2", "i2">>) >>

\* k1, k2: the same instruction text at two widths, in two functions
ProgNarrow ==
    << TraceInst("k1", "entry", "pp1", "add", "d", <<"x", "x">>, NoTx, "i1", <<>>) >>

ProgWide ==
    << TraceInst("k2", "entry", "pp1", "add", "d", <<"x", "x">>, NoTx, "i2", <<>>) >>

\* h: x handed to a transmitter before its first use, no operand types
ProgMask ==
    << TraceInst("h", "entry", "pp1", "call", None, <<"x">>, TxInfo("leak", 0),
                 None, <<>>),
       TraceInst("h", "entry", "pp2", "trunc", "c", <<"x">>, NoTx, "i1", <<>>),
       TraceInst("h", "entry", "pp3", "lshr", "t", <<"x", "const:i2:1">>, NoTx,
                 "i2", <<>>),
       TraceInst("h", "entry", "pp4", "and", "d", <<"t", "y">>, NoTx, "i2", <<>>) >>

Catalog == { ProgLeak, ProgConst, ProgNarrow, ProgWide, ProgMask }

HasTx(inst) == inst.tx.kind # None

Untag(prog, keep) ==
    [i \in DOMAIN prog |-> IF i \in keep THEN prog[i] ELSE [prog[i] EXCEPT !.tx = NoTx]]

Variants(prog) ==
    { SubSeq(Untag(prog, keep), 1, n) :
        keep \in SUBSET { i \in DOMAIN prog : HasTx(prog[i]) }, n \in 0 .. Len(prog) }

Part(lhs, op, rhs) == [lhs |-> lhs, op |-> op, rhs |-> rhs]

CondChoices(insts) ==
    IF insts # <<>> /\ insts[1].fn = "f"
    THEN { <<>>, << <<Part("s", "==", "const:i2:1")>> >>,
           << <<Part("s", "<", "const:i2:1")>> >> }
    ELSE { <<>> }

PathInputs ==
    UNION { { [insts |-> v, path_conditions |-> c] : c \in CondChoices(v) } :
            v \in UNION { Variants(p) : p \in Catalog } }

-----------------------------------------------------------------------------
(* State.                                                                  *)

VARIABLES
    enable_query_cache,  \* SymExecEngine.enable_query_cache
    query_cache,         \* SymExecEngine._query_cache: query key -> verdict
    pc,                  \* where the current analyze_path call stands
    path_id, insts, path_conditions,         \* its arguments
    state_a, state_b, tx_equalities, prev_bb, current_bb,
    assertions,          \* the solver's assertions, in order
    base_key, idx, results, stats,
    summary,             \* the PathAnalysisSummary last returned
    unknown_left,        \* how often the solver may still answer unknown
    calls,               \* analyze_path calls made on this engine
    bundles,             \* the paths handed to analyze_path, in call order
    paths, pp_coverage, path_results,        \* what the aggregation reads
    out,                 \* what the aggregation returned
    path_conditions_json,                    \* analyze_path's structured condition
    builder_path, constraints, builder_pc,   \* check_paths: the path, its ConstraintBuilder
    pipe_paths, emit_idx, written, emit_pc,  \* emit_path_publicness_symexec: the bundles,
                                             \* the loop position, the output file
    trace, cfg_paths, pipes, join_pc         \* build_pipeline: its inputs, its result

engine == <<enable_query_cache, query_cache>>
call == <<pc, path_id, insts, path_conditions, state_a, state_b, tx_equalities,
          prev_bb, current_bb, assertions, base_key, idx, results, stats>>
driver == <<summary, unknown_left, calls, bundles>>
agg == <<paths, pp_coverage, path_results, out>>
builder == <<builder_path, constraints, builder_pc>>
emitter == <<pipe_paths, emit_idx, written, emit_pc>>
joiner == <<trace, cfg_paths, pipes, join_pc>>
vars == <<engine, call, driver, agg, path_conditions_json, builder, emitter, joiner>>

ZeroStats ==
    [query_count |-> 0, sat_count |-> 0, unsat_count |-> 0, unknown_count |-> 0,
     cache_hits |-> 0, cache_misses |-> 0]

NoSummary == [fn |-> None, path_id |-> 0, inst_count |-> 0, def_count |-> 0] @@ ZeroStats

NoOut == [missing_policy |-> None, points |-> {}]

InitCall ==
    /\ pc = "idle"
    /\ path_id = 0
    /\ insts = <<>>
    /\ path_conditions = <<>>
    /\ state_a = SymState("A")
    /\ state_b = SymState("B")
    /\ tx_equalities = <<>>
    /\ prev_bb = None
    /\ current_bb = None
    /\ assertions = <<>>
    /\ base_key = SolverSexpr(<<>>)
    /\ idx = 1
    /\ results = <<>>
    /\ stats = ZeroStats
    /\ summary = NoSummary
    /\ calls = 0
    /\ bundles = <<>>
    /\ query_cache = EmptyMap
    /\ out = NoOut
    /\ path_conditions_json = <<>>
    /\ builder_path = None
    /\ constraints = <<>>
    /\ builder_pc = "idle"
    /\ pipe_paths = <<>>
    /\ emit_idx = 1
    /\ written = <<>>
    /\ emit_pc = "idle"
    /\ pipes = EmptyMap
    /\ join_pc = "idle"

Init ==
    /\ InitCall
    /\ trace = <<>>
    /\ cfg_paths = <<>>
    /\ enable_query_cache \in BOOLEAN
    /\ unknown_left = MaxUnknown
    /\ paths = <<>>
    /\ pp_coverage = <<>>
    /\ path_results = <<>>

-----------------------------------------------------------------------------
(* analyze_path, one action per step of its loops.                         *)

\* Start on an engine whose cache lives for one call only
Start_FreshCache(input) ==
    /\ pc = "idle"
    /\ calls < MaxCalls
    /\ path_id' = IF "path_id" \in DOMAIN input THEN input.path_id ELSE calls + 1
    /\ insts' = input.insts
    /\ path_conditions' = input.path_conditions
    /\ state_a' = SymState("A")
    /\ state_b' = SymState("B")
    /\ tx_equalities' = <<>>
    /\ prev_bb' = None
    /\ current_bb' = None
    /\ assertions' = <<>>
    /\ base_key' = SolverSexpr(<<>>)
    /\ idx' = 1
    /\ results' = <<>>
    /\ stats' = ZeroStats
    /\ pc' = IF input.insts = <<>> THEN "cond_a" ELSE "exec"
    /\ paths' = Append(paths, [fn |-> IF input.insts = <<>> THEN None
                                      ELSE input.insts[1].fn,
                               path_id |-> IF "path_id" \in DOMAIN input
                                           THEN input.path_id ELSE calls + 1,
                               pp_seq |-> [i \in DOMAIN input.insts |-> input.insts[i].pp]])
    /\ bundles' = Append(bundles, input)
    /\ query_cache' = EmptyMap
    /\ UNCHANGED <<enable_query_cache, summary, unknown_left, calls, pp_coverage,
                   path_results, out>>
    /\ path_conditions_json' = IF "path_conditions_json" \in DOMAIN input
                               THEN input.path_conditions_json ELSE <<>>
    /\ UNCHANGED <<builder, emitter, joiner>>

\* lines 446-455: a new solver, two empty states
Start(input) ==
    /\ pc = "idle"
    /\ calls < MaxCalls
    /\ path_id' = IF "path_id" \in DOMAIN input THEN input.path_id ELSE calls + 1
    /\ insts' = input.insts
    /\ path_conditions' = input.path_conditions
    /\ state_a' = SymState("A")
    /\ state_b' = SymState("B")
    /\ tx_equalities' = <<>>
    /\ prev_bb' = None
    /\ current_bb' = None
    /\ assertions' = <<>>
    /\ base_key' = SolverSexpr(<<>>)
    /\ idx' = 1
    /\ results' = <<>>
    /\ stats' = ZeroStats
    /\ pc' = IF input.insts = <<>> THEN "cond_a" ELSE "exec"
    /\ paths' = Append(paths, [fn |-> IF input.insts = <<>> THEN None
                                      ELSE input.insts[1].fn,
                               path_id |-> IF "path_id" \in DOMAIN input
                                           THEN input.path_id ELSE calls + 1,
                               pp_seq |-> [i \in DOMAIN input.insts |-> input.insts[i].pp]])
    /\ bundles' = Append(bundles, input)
    /\ UNCHANGED <<engine, summary, unknown_left, calls, pp_coverage, path_results, out>>
    /\ path_conditions_json' = IF "path_conditions_json" \in DOMAIN input
                               THEN input.path_conditions_json ELSE <<>>
    /\ UNCHANGED <<builder, emitter, joiner>>

\* ExecTx whose operand evaluation leaves no trace in state B
ExecTx_OnlyA(ra, rb, ta, tb) ==
    [a |-> ta.st, b |-> rb.st, tx |-> TRUE, eq |-> EqExpr(ta.val, tb.val),
     raised |-> IsErr(ra.val) \/ IsErr(rb.val) \/ IsErr(EqExpr(ta.val, tb.val))]

\* lines 463-469: the transmitter operand in both states and their equality
ExecTx(ra, rb, ta, tb) ==
    [a |-> ta.st, b |-> tb.st, tx |-> TRUE, eq |-> EqExpr(ta.val, tb.val),
     raised |-> IsErr(ra.val) \/ IsErr(rb.val) \/ IsErr(EqExpr(ta.val, tb.val))]

\* ExecBoth without lines 463-469: the transmitter tag is ignored
ExecBoth_NoTx(inst, ra, rb, ptr_width) ==
    [a |-> ra.st, b |-> rb.st, tx |-> FALSE, eq |-> NoVal,
     raised |-> IsErr(ra.val) \/ IsErr(rb.val)]

\* lines 463-469: ra and rb are what _eval_inst left in the two states
ExecBoth(inst, ra, rb, ptr_width) ==
    LET op_id == inst.uses[inst.tx.which + 1]
        op_width == IF Len(inst.use_tys) > 0 /\ inst.tx.which < Len(inst.use_tys)
                    THEN _parse_ty_width(inst.use_tys[inst.tx.which + 1], ptr_width)
                    ELSE ptr_width
    IN  IF HasTx(inst) /\ inst.tx.which < Len(inst.uses)
        THEN ExecTx(ra, rb, _eval_operand(ra.st, op_id, op_width, ptr_width),
                    _eval_operand(rb.st, op_id, op_width, ptr_width))
        ELSE [a |-> ra.st, b |-> rb.st, tx |-> FALSE, eq |-> NoVal,
              raised |-> IsErr(ra.val) \/ IsErr(rb.val)]

\* ExecStep on states whose memory has forgotten what it held
ExecStep_NoMem(inst, sa, sb, pbb, ptr_width) ==
    ExecBoth(inst, _eval_inst(inst, [sa EXCEPT !.mem = EmptyMap], "A", pbb, ptr_width),
             _eval_inst(inst, [sb EXCEPT !.mem = EmptyMap], "B", pbb, ptr_width), ptr_width)

\* lines 461-469: the body of the instruction loop for one instruction
ExecStep(inst, sa, sb, pbb, ptr_width) ==
    ExecBoth(inst, _eval_inst(inst, sa, "A", pbb, ptr_width),
             _eval_inst(inst, sb, "B", pbb, ptr_width), ptr_width)

ExecDone(inst, pbb, r) ==
    /\ prev_bb' = pbb
    /\ current_bb' = inst.bb
    /\ state_a' = r.a
    /\ state_b' = r.b
    /\ tx_equalities' = IF r.tx /\ ~r.raised THEN Append(tx_equalities, r.eq)
                        ELSE tx_equalities
    /\ pc' = IF r.raised THEN "raised"
             ELSE IF idx = Len(insts) THEN "cond_a" ELSE "exec"
    /\ idx' = IF r.raised THEN idx ELSE idx + 1

\* lines 456-469: one iteration of the instruction loop
ExecInst ==
    /\ pc = "exec"
    /\ LET pbb == IF insts[idx].bb # current_bb THEN current_bb ELSE prev_bb
       IN  ExecDone(insts[idx], pbb, ExecStep(insts[idx], state_a, state_b, pbb, PtrWidth))
    /\ UNCHANGED <<engine, path_id, insts, path_conditions, assertions, base_key,
                   results, stats, driver, agg>>
    /\ UNCHANGED <<path_conditions_json, builder, emitter, joiner>>

\* lines 472-478: the path condition on state A
AddPathConditionsA ==
    /\ pc = "cond_a"
    /\ LET r == AddPathConditions(state_a, path_conditions, path_conditions_json,
                                   PtrWidth)
       IN  /\ state_a' = r.st
           /\ assertions' = assertions \o r.added
           /\ pc' = IF r.raised THEN "raised" ELSE "cond_b"
    /\ UNCHANGED <<engine, path_id, insts, path_conditions, state_b, tx_equalities,
                   prev_bb, current_bb, base_key, idx, results, stats, driver, agg>>
    /\ UNCHANGED <<path_conditions_json, builder, emitter, joiner>>

\* AddPathConditionsB resolving the tokens in state A a second time
AddPathConditionsB_OnA ==
    /\ pc = "cond_b"
    /\ LET r == AddPathConditions(state_a, path_conditions, path_conditions_json,
                                   PtrWidth)
       IN  /\ state_b' = state_b
           /\ assertions' = assertions \o r.added
           /\ pc' = IF r.raised THEN "raised" ELSE "tx"
    /\ UNCHANGED <<engine, path_id, insts, path_conditions, state_a, tx_equalities,
                   prev_bb, current_bb, base_key, idx, results, stats, driver, agg>>
    /\ UNCHANGED <<path_conditions_json, builder, emitter, joiner>>

\* lines 479-485: the path condition on state B
AddPathConditionsB ==
    /\ pc = "cond_b"
    /\ LET r == AddPathConditions(state_b, path_conditions, path_conditions_json,
                                   PtrWidth)
       IN  /\ state_b' = r.st
           /\ assertions' = assertions \o r.added
           /\ pc' = IF r.raised THEN "raised" ELSE "tx"
    /\ UNCHANGED <<engine, path_id, insts, path_conditions, state_a, tx_equalities,
                   prev_bb, current_bb, base_key, idx, results, stats, driver, agg>>
    /\ UNCHANGED <<path_conditions_json, builder, emitter, joiner>>

\* AddTxEqualities asserting only the first collected equality
AddTxEqualities_FirstOnly ==
    /\ pc = "tx"
    /\ assertions' = assertions \o SubSeq(tx_equalities, 1, IF tx_equalities = <<>> THEN 0 ELSE 1)
    /\ base_key' = SolverSexpr(assertions')
    /\ idx' = 1
    /\ pc' = "query"
    /\ UNCHANGED <<engine, path_id, insts, path_conditions, state_a, state_b,
                   tx_equalities, prev_bb, current_bb, results, stats, driver, agg>>
    /\ UNCHANGED <<path_conditions_json, builder, emitter, joiner>>

\* lines 486-497: the transmitter equalities, then the base key
AddTxEqualities ==
    /\ pc = "tx"
    /\ assertions' = assertions \o tx_equalities
    /\ base_key' = SolverSexpr(assertions \o tx_equalities)
    /\ idx' = 1
    /\ pc' = "query"
    /\ UNCHANGED <<engine, path_id, insts, path_conditions, state_a, state_b,
                   tx_equalities, prev_bb, current_bb, results, stats, driver, agg>>
    /\ UNCHANGED <<path_conditions_json, builder, emitter, joiner>>

\* The verdict of solver.check() with diff_expr pushed.
CheckVerdict(base, diff_expr) ==
    IF Satisfiable(Append(base, diff_expr)) THEN True ELSE False

Bump(st, field) == [st EXCEPT ![field] = @ + 1]

\* CountVerdict that counts no unknown outcome
CountVerdict_DropUnknown(st, sat) ==
    IF sat \in { True, False }
    THEN Bump(st, IF sat = True THEN "sat_count" ELSE "unsat_count")
    ELSE st

CountVerdict(st, sat) ==
    Bump(st, CASE sat = True -> "sat_count"
               [] sat = False -> "unsat_count"
               [] OTHER -> "unknown_count")

\* QueryInst whose solver keeps the pushed query: push, assert, check, no pop
QueryInst_NoPop ==
    /\ pc = "query"
    /\ idx <= Len(insts)
    /\ LET inst == insts[idx]
           bound == inst.def_id \in DOMAIN state_a.env /\ inst.def_id \in DOMAIN state_b.env
           diff_expr == NeExpr(state_a.env[inst.def_id], state_b.env[inst.def_id])
           query_key == QueryKey(base_key, diff_expr)
           cached == enable_query_cache /\ query_key \in DOMAIN query_cache
           record(sat) == PathPublicness(inst.fn, path_id, inst.pp, inst.def_id, sat)
       IN  IF inst.def_id = None
           THEN /\ idx' = idx + 1
                /\ UNCHANGED <<pc, results, stats, query_cache, unknown_left>>
           ELSE IF ~bound
           THEN /\ idx' = idx + 1
                /\ results' = Append(results, record(None))
                /\ stats' = Bump(Bump(stats, "query_count"), "unknown_count")
                /\ UNCHANGED <<pc, query_cache, unknown_left>>
           ELSE IF IsErr(diff_expr)
           THEN /\ pc' = "raised"
                /\ UNCHANGED <<idx, results, stats, query_cache, unknown_left>>
           ELSE IF cached
           THEN /\ idx' = idx + 1
                /\ results' = Append(results, record(query_cache[query_key]))
                /\ stats' = CountVerdict(Bump(Bump(stats, "query_count"), "cache_hits"),
                                         query_cache[query_key])
                /\ UNCHANGED <<pc, query_cache, unknown_left>>
           ELSE \E gives_up \in IF unknown_left > 0 THEN BOOLEAN ELSE { FALSE } :
                  LET sat == IF gives_up THEN None ELSE CheckVerdict(assertions, diff_expr)
                  IN  /\ idx' = idx + 1
                      /\ results' = Append(results, record(sat))
                      /\ stats' = CountVerdict(
                                     Bump(Bump(stats, "query_count"), "cache_misses"), sat)
                      /\ query_cache' = IF enable_query_cache
                                        THEN Bind(query_cache, query_key, sat)
                                        ELSE query_cache
                      /\ unknown_left' = IF gives_up THEN unknown_left - 1
                                         ELSE unknown_left
                      /\ UNCHANGED pc
    /\ LET inst == insts[idx]
           diff_expr == NeExpr(state_a.env[inst.def_id], state_b.env[inst.def_id])
           checked == /\ inst.def_id # None
                      /\ inst.def_id \in DOMAIN state_a.env
                      /\ inst.def_id \in DOMAIN state_b.env
                      /\ ~IsErr(diff_expr)
                      /\ ~(enable_query_cache
                            /\ QueryKey(base_key, diff_expr) \in DOMAIN query_cache)
       IN  assertions' = IF checked THEN Append(assertions, diff_expr) ELSE assertions
    /\ UNCHANGED <<enable_query_cache, path_id, insts, path_conditions, state_a, state_b,
                   tx_equalities, prev_bb, current_bb, base_key, summary,
                   calls, bundles, agg>>
    /\ UNCHANGED <<path_conditions_json, builder, emitter, joiner>>

\* lines 499-558: one iteration of the query loop
QueryInst ==
    /\ pc = "query"
    /\ idx <= Len(insts)
    /\ LET inst == insts[idx]
           bound == inst.def_id \in DOMAIN state_a.env /\ inst.def_id \in DOMAIN state_b.env
           diff_expr == NeExpr(state_a.env[inst.def_id], state_b.env[inst.def_id])
           query_key == QueryKey(base_key, diff_expr)
           cached == enable_query_cache /\ query_key \in DOMAIN query_cache
           record(sat) == PathPublicness(inst.fn, path_id, inst.pp, inst.def_id, sat)
       IN  IF inst.def_id = None
           THEN /\ idx' = idx + 1
                /\ UNCHANGED <<pc, results, stats, query_cache, unknown_left>>
           ELSE IF ~bound
           THEN /\ idx' = idx + 1
                /\ results' = Append(results, record(None))
                /\ stats' = Bump(Bump(stats, "query_count"), "unknown_count")
                /\ UNCHANGED <<pc, query_cache, unknown_left>>
           ELSE IF IsErr(diff_expr)
           THEN /\ pc' = "raised"
                /\ UNCHANGED <<idx, results, stats, query_cache, unknown_left>>
           ELSE IF cached
           THEN /\ idx' = idx + 1
                /\ results' = Append(results, record(query_cache[query_key]))
                /\ stats' = CountVerdict(Bump(Bump(stats, "query_count"), "cache_hits"),
                                         query_cache[query_key])
                /\ UNCHANGED <<pc, query_cache, unknown_left>>
           ELSE \E gives_up \in IF unknown_left > 0 THEN BOOLEAN ELSE { FALSE } :
                  LET sat == IF gives_up THEN None ELSE CheckVerdict(assertions, diff_expr)
                  IN  /\ idx' = idx + 1
                      /\ results' = Append(results, record(sat))
                      /\ stats' = CountVerdict(
                                     Bump(Bump(stats, "query_count"), "cache_misses"), sat)
                      /\ query_cache' = IF enable_query_cache
                                        THEN Bind(query_cache, query_key, sat)
                                        ELSE query_cache
                      /\ unknown_left' = IF gives_up THEN unknown_left - 1
                                         ELSE unknown_left
                      /\ UNCHANGED pc
    /\ UNCHANGED <<enable_query_cache, path_id, insts, path_conditions, state_a, state_b,
                   tx_equalities, prev_bb, current_bb, assertions, base_key, summary,
                   calls, bundles, agg>>
    /\ UNCHANGED <<path_conditions_json, builder, emitter, joiner>>

\* lines 559-572: the summary and the return
Return ==
    /\ pc = "query"
    /\ idx > Len(insts)
    /\ summary' = [fn |-> IF insts # <<>> THEN insts[1].fn ELSE "",
                   path_id |-> path_id,
                   inst_count |-> Len(insts),
                   def_count |-> Cardinality({ i \in DOMAIN insts : insts[i].def_id # None })]
                  @@ stats
    /\ path_results' = path_results \o results
    /\ calls' = calls + 1
    /\ pc' = "idle"
    /\ UNCHANGED <<engine, path_id, insts, path_conditions, state_a, state_b,
                   tx_equalities, prev_bb, current_bb, assertions, base_key, idx,
                   results, stats, unknown_left, bundles, paths, pp_coverage, out>>
    /\ UNCHANGED <<path_conditions_json, builder, emitter, joiner>>

\* The call raised: nothing is returned, the engine keeps its cache.
Raise ==
    /\ pc = "raised"
    /\ calls' = calls + 1
    /\ pc' = "idle"
    /\ UNCHANGED <<engine, path_id, insts, path_conditions, state_a, state_b,
                   tx_equalities, prev_bb, current_bb, assertions, base_key, idx,
                   results, stats, summary, unknown_left, bundles, agg>>
    /\ UNCHANGED <<path_conditions_json, builder, emitter, joiner>>

\* aggregate_public_at_point over the verdicts returned so far
Aggregate(missing_policy) ==
    /\ pc = "idle"
    /\ out' = [missing_policy |-> missing_policy,
                points |-> aggregate_public_at_point(paths, pp_coverage, path_results,
                                                     missing_policy)]
    /\ pc' = "aggregated"
    /\ UNCHANGED <<engine, path_id, insts, path_conditions, state_a, state_b,
                   tx_equalities, prev_bb, current_bb, assertions, base_key, idx,
                   results, stats, driver, paths, pp_coverage, path_results>>
    /\ UNCHANGED <<path_conditions_json, builder, emitter, joiner>>

MissingPolicies == { "unknown", "public", "secret" }

Next ==
    \/ \E input \in PathInputs : Start(input)
    \/ ExecInst
    \/ AddPathConditionsA
    \/ AddPathConditionsB
    \/ AddTxEqualities
    \/ QueryInst
    \/ Return
    \/ Raise
    \/ \E missing_policy \in MissingPolicies : Aggregate(missing_policy)

Spec == Init /\ [][Next]_vars

-----------------------------------------------------------------------------
(* The aggregation on its own: any stream of per-path verdicts, read as    *)
(* load_path_results reads it, over any of a few coverage maps.            *)

PpCoverage(fn, pp, path_ids, truncated) ==
    [fn |-> fn, pp |-> pp, path_ids |-> path_ids, truncated |-> truncated]

CfgPath(fn, pid, pp_seq) == [fn |-> fn, path_id |-> pid, pp_seq |-> pp_seq]

AggPathIds == 1 .. 2

CoverageChoices ==
    { <<>>, << PpCoverage("f", "pp0", <<2>>, FALSE) >> }
        \cup { << PpCoverage("f", "pp1", ids, t) >> :
                  ids \in { <<1>>, <<1, 2>> }, t \in BOOLEAN }

PathsChoices ==
    { <<>>,
      << CfgPath("f", 1, <<"pp1">>), CfgPath("f", 2, <<"pp0", "pp1", "pp1">>),
         CfgPath("f", NoPathId, <<"pp1">>) >> }

VerdictChoices ==
    { PathPublicness("f", pid, "pp1", "v", b) :
        pid \in AggPathIds, b \in { True, False, None } }

InitAgg ==
    /\ InitCall
    /\ trace = <<>>
    /\ cfg_paths = <<>>
    /\ enable_query_cache = TRUE
    /\ unknown_left = MaxUnknown
    /\ paths \in PathsChoices
    /\ pp_coverage \in CoverageChoices
    /\ path_results = <<>>

\* One more path_publicness record read into the list handed to the aggregation
SupplyVerdict(r) ==
    /\ pc = "idle"
    /\ Len(path_results) < MaxResults
    /\ path_results' = Append(path_results, r)
    /\ UNCHANGED <<engine, call, driver, paths, pp_coverage, out>>
    /\ UNCHANGED <<path_conditions_json, builder, emitter, joiner>>

NextAgg ==
    \/ \E r \in VerdictChoices : SupplyVerdict(r)
    \/ \E missing_policy \in MissingPolicies : Aggregate(missing_policy)

SpecAgg == InitAgg /\ [][NextAgg]_vars

-----------------------------------------------------------------------------
(* analyze_path with the query cache disabled, as a function of its        *)
(* arguments: the verdicts in order, or raised.                            *)

RECURSIVE RunInsts(_, _, _)
RunNext(path, i, x, pbb, r) ==
    IF r.raised THEN [x EXCEPT !.raised = TRUE]
    ELSE RunInsts(path, i + 1,
                  [a |-> r.a, b |-> r.b,
                   txs |-> IF r.tx THEN Append(x.txs, r.eq) ELSE x.txs,
                   prev |-> pbb, cur |-> path[i].bb, raised |-> FALSE])

RunAt(path, i, x, pbb) ==
    RunNext(path, i, x, pbb, ExecStep(path[i], x.a, x.b, pbb, PtrWidth))

\* lines 456-469: the instruction loop from instruction i on
RunInsts(path, i, x) ==
    IF i > Len(path) THEN x
    ELSE RunAt(path, i, x, IF path[i].bb # x.cur THEN x.cur ELSE x.prev)

\* lines 486-487: the assertions of the solver, in order
RunAsserted(x, ca, cb) ==
    [raised |-> ca.raised \/ cb.raised,
     env_a |-> ca.st.env, env_b |-> cb.st.env,
     assertions |-> ca.added \o cb.added \o x.txs]

\* lines 472-485: the path condition on A, then on B
RunCondB(x, conds, ca) ==
    RunAsserted(x, ca, _add_path_conditions(x.b, conds, PtrWidth))

RunConds(x, conds) ==
    IF x.raised
    THEN [raised |-> TRUE, env_a |-> EmptyMap, env_b |-> EmptyMap, assertions |-> <<>>]
    ELSE RunCondB(x, conds, _add_path_conditions(x.a, conds, PtrWidth))

\* lines 503-535: the verdict of one defining instruction
RunVerdict(inst, f) ==
    IF inst.def_id \notin DOMAIN f.env_a \/ inst.def_id \notin DOMAIN f.env_b THEN None
    ELSE IF IsErr(NeExpr(f.env_a[inst.def_id], f.env_b[inst.def_id])) THEN "raise"
    ELSE CheckVerdict(f.assertions, NeExpr(f.env_a[inst.def_id], f.env_b[inst.def_id]))

Defining(path) == SelectSeq(path, LAMBDA inst : inst.def_id # None)

RunQueries(defs, f) ==
    IF f.raised \/ \E k \in DOMAIN defs : RunVerdict(defs[k], f) = "raise"
    THEN [raised |-> TRUE, verdicts |-> <<>>]
    ELSE [raised |-> FALSE, verdicts |-> [k \in DOMAIN defs |-> RunVerdict(defs[k], f)]]

Uncached(path, conds) ==
    RunQueries(Defining(path),
               RunConds(RunInsts(path, 1,
                                 [a |-> SymState("A"), b |-> SymState("B"), txs |-> <<>>,
                                  prev |-> None, cur |-> None, raised |-> FALSE]),
                        conds))

\* No solver call of this engine has answered unknown.
SolverDecided == unknown_left = MaxUnknown

AtReturn == pc = "query" /\ idx > Len(insts)

Verdicts(rs) == [i \in DOMAIN rs |-> rs[i].public]

\* Sanity of the two formulations: without the cache the engine returns Uncached.
UncachedAgrees ==
    (AtReturn /\ ~enable_query_cache /\ SolverDecided)
        => Verdicts(results) = Uncached(insts, path_conditions).verdicts

-----------------------------------------------------------------------------
(* Properties of analyze_path.                                             *)

DefAt(k) == Defining(insts)[k]

BoundAt(k) == DefAt(k).def_id \in DOMAIN state_a.env /\ DefAt(k).def_id \in DOMAIN state_b.env

DiffAt(k) == NeExpr(state_a.env[DefAt(k).def_id], state_b.env[DefAt(k).def_id])

NoTransmitters(path) == \A i \in DOMAIN path : ~HasTx(path[i])

\* C3: for every defining instruction whose value is bound in both states, the
\* recorded verdict is true exactly when path conditions, transmitter
\* equalities and A(def) != B(def) are satisfiable together, false exactly when
\* they are not, and None only when a solver call answered neither.
PublicnessPolarity ==
    pc = "query" =>
        \A k \in DOMAIN results :
            BoundAt(k) =>
                /\ results[k].public = True => Satisfiable(Append(assertions, DiffAt(k)))
                /\ results[k].public = False => ~Satisfiable(Append(assertions, DiffAt(k)))
                /\ results[k].public = None => ~SolverDecided

\* C4: the verdicts an engine returns for a path are those the engine with the
\* query cache disabled returns for it, whatever paths were analyzed before.
CacheEquivalence ==
    (AtReturn /\ SolverDecided)
        => Verdicts(results) = Uncached(insts, path_conditions).verdicts

TaggedAt(path) == { i \in DOMAIN path : HasTx(path[i]) }

\* C5: no verdict of a path is true where the same path with some of its
\* transmitter tags removed has the verdict false.
PathClosureMonotone ==
    (AtReturn /\ SolverDecided /\ ~enable_query_cache)
        => \A keep \in SUBSET TaggedAt(insts) :
             LET fewer == Uncached(Untag(insts, keep), path_conditions)
             IN  ~fewer.raised
                   => \A k \in DOMAIN results :
                        fewer.verdicts[k] = False => results[k].public # True

\* A load defining a value, then an instruction tagged as transmitter of that
\* value at operand 0; empty path condition.
FixedSecretPath ==
    /\ Len(insts) = 2
    /\ path_conditions = <<>>
    /\ insts[1].op = "load" /\ insts[1].def_id # None
    /\ HasTx(insts[2]) /\ insts[2].tx.which = 0
    /\ Len(insts[2].uses) > 0 /\ insts[2].uses[1] = insts[1].def_id

\* C8: on a path of a load defining s and an instruction transmitting s at
\* operand 0, with empty path condition, the verdict returned for s is false.
TransmitterFixedSecret ==
    (pc = "query" /\ FixedSecretPath /\ SolverDecided)
        => \A k \in DOMAIN results :
             results[k].value = insts[1].def_id => results[k].public = False

TransmitterFixedSecretWitness ==
    /\ AtReturn /\ FixedSecretPath /\ SolverDecided
    /\ \E k \in DOMAIN results :
         results[k].value = insts[1].def_id /\ results[k].public = False

ConstantArith(inst) ==
    /\ inst.op \in ArithOps
    /\ Len(inst.uses) >= 2
    /\ \A i \in DOMAIN inst.uses : inst.uses[i] \in ConstIntTokens

\* C9: on a path without transmitters and with empty path condition, a value
\* defined by an arithmetic instruction over integer constants has verdict
\* false, both states binding it to the same constant expression.
ConstantCopy ==
    (pc = "query" /\ NoTransmitters(insts) /\ path_conditions = <<>> /\ SolverDecided)
        => \A k \in DOMAIN results :
             ConstantArith(DefAt(k))
                => /\ results[k].public = False
                   /\ state_a.env[DefAt(k).def_id] = state_b.env[DefAt(k).def_id]

ConstantCopyWitness ==
    /\ AtReturn /\ NoTransmitters(insts) /\ path_conditions = <<>> /\ SolverDecided
    /\ \E k \in DOMAIN results :
         /\ ConstantArith(DefAt(k))
         /\ DefAt(k).uses = <<"const:i2:1", "const:i2:2">>
         /\ results[k].public = False

StateSyms(st) ==
    UNION ({ Syms(st.env[k]) : k \in DOMAIN st.env }
           \cup { Syms(st.mem[k]) : k \in DOMAIN st.mem })

IsFreshSymbol(e) == e[1] = "sym"

\* C10: every symbol of state A is named with tag A and every symbol of state
\* B with tag B, so the states share none; and on a path without transmitters
\* and with empty path condition a value bound to a bare fresh symbol has
\* verdict true.
RunIndependence ==
    /\ \A y \in StateSyms(state_a) : y[1][1] = "A"
    /\ \A y \in StateSyms(state_b) : y[1][1] = "B"
    /\ StateSyms(state_a) \cap StateSyms(state_b) = {}
    /\ (pc = "query" /\ NoTransmitters(insts) /\ path_conditions = <<>> /\ SolverDecided)
         => \A k \in DOMAIN results :
              (BoundAt(k) /\ IsFreshSymbol(state_a.env[DefAt(k).def_id]))
                 => results[k].public = True

RunIndependenceWitness ==
    /\ AtReturn /\ NoTransmitters(insts) /\ path_conditions = <<>> /\ SolverDecided
    /\ \E k \in DOMAIN results :
         /\ DefAt(k).op = "load"
         /\ IsFreshSymbol(state_a.env[DefAt(k).def_id])
         /\ IsFreshSymbol(state_b.env[DefAt(k).def_id])
         /\ results[k].public = True

-----------------------------------------------------------------------------
(* Properties of aggregate_public_at_point.                                *)

Triple(r) == <<r.fn, r.pp, r.value>>

\* The coverage of the program point of an emitted record
Covering(r) == _build_pp_paths(paths, pp_coverage)[<<r.fn, r.pp>>]

\* path id -> the verdict recorded for it at the triple of an emitted record
Recorded(r) == PerPath(path_results, Triple(r))

CoveringIds(r) == { Covering(r).path_ids[i] : i \in DOMAIN Covering(r).path_ids }

SomeCoveringFalse(r) ==
    \E pid \in CoveringIds(r) : pid \in DOMAIN Recorded(r) /\ Recorded(r)[pid] = False

SomeCoveringUnknown(r) ==
    \E pid \in CoveringIds(r) : pid \notin DOMAIN Recorded(r) \/ Recorded(r)[pid] = None

\* C1 as stated: a false verdict anywhere in the stream for a triple makes
\* every record emitted for the triple false, under every policy.
AggregationSoundness ==
    pc = "aggregated" =>
        \A i \in DOMAIN path_results :
            path_results[i].public = False
                => \A r \in out.points :
                     Triple(r) = Triple(path_results[i]) => r.public = False

\* C1: if the verdict recorded for some covering path of (fn, pp), the last one
\* supplied for that path and triple, is false, the record emitted for the
\* triple is false under every policy.
AggregationSoundCovered ==
    pc = "aggregated" =>
        \A r \in out.points : SomeCoveringFalse(r) => r.public = False

AggregationSoundCoveredWitness ==
    /\ pc = "aggregated"
    /\ out.missing_policy = "public"
    /\ \E r \in out.points :
         SomeCoveringFalse(r) /\ SomeCoveringUnknown(r) /\ r.public = False

\* C6: where every covering path has a verdict, none of them unknown, and the
\* coverage is not truncated, the three policies give the same public.
MissingPolicyIdentity ==
    pc = "aggregated" =>
        \A r \in out.points :
            (~SomeCoveringUnknown(r) /\ ~Covering(r).truncated)
                => \A mp \in MissingPolicies :
                     \E q \in aggregate_public_at_point(paths, pp_coverage, path_results, mp) :
                        Triple(q) = Triple(r) /\ q.public = r.public

MissingPolicyIdentityWitness ==
    /\ pc = "aggregated"
    /\ out.missing_policy = "secret"
    /\ \E r \in out.points :
         /\ ~SomeCoveringUnknown(r) /\ ~Covering(r).truncated
         /\ r.total_paths = 2
         /\ r.public = True

PolicyVerdict(missing_policy) ==
    CASE missing_policy = "public" -> True
      [] missing_policy = "secret" -> False
      [] OTHER -> None

\* C7: with no covering path false, the aggregate is the policy's verdict
\* (None, true, false for unknown, public, secret) if a covering path is
\* missing or unknown or the coverage is truncated, and true otherwise.
AggregationDecision ==
    pc = "aggregated" =>
        \A r \in out.points :
            ~SomeCoveringFalse(r)
                => r.public = IF SomeCoveringUnknown(r) \/ Covering(r).truncated
                              THEN PolicyVerdict(out.missing_policy)
                              ELSE True

\* {1, 2} truncated, only path 1 reporting true, policy unknown: None
AggregationDecisionWitness ==
    /\ pc = "aggregated"
    /\ out.missing_policy = "unknown"
    /\ pp_coverage = << PpCoverage("f", "pp1", <<1, 2>>, TRUE) >>
    /\ path_results = << PathPublicness("f", 1, "pp1", "v", True) >>
    /\ \E r \in out.points : r.public = None /\ r.truncated /\ r.missing_paths = 1

-----------------------------------------------------------------------------
(* Properties of the engine and the aggregation together.                  *)

DefinedOn(b, r) ==
    \E i \in DOMAIN b.insts :
        b.insts[i].fn = r.fn /\ b.insts[i].pp = r.pp /\ b.insts[i].def_id = r.value

TransmitterEqualOn(b, v) ==
    \E i \in DOMAIN b.insts :
        /\ HasTx(b.insts[i])
        /\ b.insts[i].tx.which < Len(b.insts[i].uses)
        /\ b.insts[i].uses[b.insts[i].tx.which + 1] = v

UnconstrainedOn(b) == NoTransmitters(b.insts) /\ b.path_conditions = <<>>

Reported(r, pid) ==
    \E i \in DOMAIN path_results :
        Triple(path_results[i]) = Triple(r) /\ path_results[i].path_id = pid

\* Two analyzed paths define the value of r at its program point: on one it is
\* handed to a transmitter, on the other nothing constrains it.
BranchScenario(r) ==
    \E p1, p2 \in DOMAIN bundles :
        /\ p1 # p2
        /\ DefinedOn(bundles[p1], r) /\ DefinedOn(bundles[p2], r)
        /\ TransmitterEqualOn(bundles[p1], r.value)
        /\ UnconstrainedOn(bundles[p2])
        /\ Reported(r, p1) /\ Reported(r, p2)

\* C2 as stated: a value transmitter-equal on one path through its program
\* point and unconstrained on the other aggregates to true.
BranchDivergencePublic ==
    (pc = "aggregated" /\ SolverDecided)
        => \A r \in out.points : BranchScenario(r) => r.public = True

\* C2: a value transmitter-equal on one path through its program point and
\* unconstrained on the other aggregates to false, under every policy.
BranchDivergenceSecret ==
    (pc = "aggregated" /\ SolverDecided)
        => \A r \in out.points : BranchScenario(r) => r.public = False

BranchDivergenceSecretWitness ==
    /\ pc = "aggregated" /\ SolverDecided
    /\ \E r \in out.points :
         /\ BranchScenario(r)
         /\ r.total_paths = 2 /\ r.missing_paths = 0
         /\ \E i, j \in DOMAIN path_results :
              /\ Triple(path_results[i]) = Triple(r) /\ path_results[i].public = False
              /\ Triple(path_results[j]) = Triple(r) /\ path_results[j].public = True
         /\ r.public = False

-----------------------------------------------------------------------------
(* The engine on traces that exercise single opcodes: icmp, phi, store, an *)
(* opcode the engine does not know, two transmitters, and a path condition *)
(* naming one variable at two widths.                                      *)

\* t: a load of s, then c = icmp eq s, 0
ProgTie ==
    << TraceInst("t", "entry", "pp1", "load", "s", <<"p">>, NoTx, "i2", <<>>),
       TraceInst("t", "entry", "pp2", "icmp", "c", <<"s", "const:i2:0">>, NoTx,
                 "i1", <<>>) >>

\* m: a load in block b1, then in block j a phi over (v0, b0), (v1, b1)
ProgPhi ==
    << TraceInst("m", "b1", "pp1", "load", "v1", <<"p">>, NoTx, "i2", <<>>),
       TraceInst("m", "j", "pp2", "phi", "d", <<"v0", "b0", "v1", "b1">>, NoTx,
                 "i2", <<>>) >>

\* m entered by a block that is no incoming block of the phi
ProgPhiOther ==
    << TraceInst("m", "b2", "pp0", "load", "v1", <<"p">>, NoTx, "i2", <<>>),
       ProgPhi[2] >>

\* u: an opcode the engine has no case for, defining z
ProgUnknownOp ==
    << TraceInst("u", "entry", "pp1", "fneg", "z", <<"a">>, NoTx, "i2", <<>>) >>

\* w: a store record that carries a def
ProgStoreDef ==
    << TraceInst("w", "entry", "pp1", "store", "r", <<"const:i2:1", "q">>, NoTx,
                 None, <<>>) >>

\* x: two transmitters, then a value over both operands
ProgMem ==
    << TraceInst("mm", "entry", "pp1", "store", None, <<"const:i2:1", "p">>, NoTx, None, <<>>),
       TraceInst("mm", "entry", "pp2", "load", "m1", <<"p">>, NoTx, "i2", <<>>),
       TraceInst("mm", "entry", "pp3", "store", None, <<"const:i2:2", "q">>, NoTx, None, <<>>),
       TraceInst("mm", "entry", "pp4", "load", "m2", <<"p">>, NoTx, "i2", <<>>),
       TraceInst("mm", "entry", "pp5", "load", "m3", <<"r">>, NoTx, "i2", <<>>),
       TraceInst("mm", "entry", "pp6", "store", None, <<"const:i2:3", "p">>, NoTx, None, <<>>),
       TraceInst("mm", "entry", "pp7", "load", "m4", <<"r">>, NoTx, "i2", <<>>),
       TraceInst("mm", "entry", "pp8", "load", "m5", <<"p">>, NoTx, "i2", <<>>) >>

\* A block entered from a and then re-entered from itself: bbs = <<a, b, b>>
ProgLoop ==
    << TraceInst("lp", "a", "pp1", "load", "v0", <<"p">>, NoTx, "i2", <<>>),
       TraceInst("lp", "b", "pp2", "phi", "d", <<"v0", "a", "d2", "b">>, NoTx, "i2", <<>>),
       TraceInst("lp", "b", "pp3", "add", "d2", <<"d", "const:i2:1">>, NoTx, "i2", <<>>),
       TraceInst("lp", "b", "pp2", "phi", "d", <<"v0", "a", "d2", "b">>, NoTx, "i2", <<>>),
       TraceInst("lp", "b", "pp3", "add", "d2", <<"d", "const:i2:1">>, NoTx, "i2", <<>>) >>

\* rb: x is defined twice, the second time from its first value
ProgRebind ==
    << TraceInst("rb", "entry", "pp1", "add", "x", <<"a", "const:i2:1">>, NoTx, "i2", <<>>),
       TraceInst("rb", "entry", "pp2", "add", "x", <<"x", "const:i2:1">>, NoTx, "i2", <<>>) >>

\* A bundle that also tells, for each instruction, which position of the
\* path's bbs it was materialized for
VisitBundle(path_insts, bb_visit) ==
    [insts |-> path_insts, path_conditions |-> <<>>, bb_visit |-> bb_visit]

ProgTwoTx ==
    << TraceInst("x", "entry", "pp1", "call", None, <<"a">>, TxInfo("leak", 0),
                 None, <<>>),
       TraceInst("x", "entry", "pp2", "call", None, <<"k", "b">>, TxInfo("leak", 1),
                 None, <<>>),
       TraceInst("x", "entry", "pp3", "add", "d", <<"a", "b">>, NoTx, "i2", <<>>) >>

TieCond == << <<Part("c", "==", "const:i1:1")>> >>

\* v == const:i1:0 && v == const:i2:0
\* Two condition strings of one atom each, over values of ProgTwoTx
TwoCond == << <<Part("a", "!=", "const:i2:0")>>, <<Part("d", "==", "const:i2:1")>> >>

\* A value defined at 2 bits by ProgUnknownOp against a 1-bit constant
NarrowCond == << <<Part("z", "==", "const:i1:0")>> >>

WidenCond == << <<Part("v", "==", "const:i1:0"), Part("v", "==", "const:i2:0")>> >>

PathBundle(path, conds) == [insts |-> path, path_conditions |-> conds]

OpsInputs ==
    { PathBundle(ProgTie, TieCond),
      PathBundle(ProgPhi, <<>>), PathBundle(<<ProgPhi[2]>>, <<>>),
      PathBundle(ProgPhiOther, <<>>),
      PathBundle(ProgUnknownOp, <<>>), PathBundle(ProgUnknownOp, WidenCond),
      PathBundle(ProgUnknownOp, NarrowCond),
      PathBundle(ProgMem, <<>>),
      VisitBundle(ProgLoop, <<1, 2, 2, 3, 3>>),
      PathBundle(ProgStoreDef, <<>>),
      PathBundle(ProgRebind, <<>>),
      PathBundle(ProgTwoTx, <<>>),
      PathBundle(ProgTwoTx, TwoCond) }

NextOps ==
    \/ \E input \in OpsInputs : Start(input)
    \/ ExecInst
    \/ AddPathConditionsA
    \/ AddPathConditionsB
    \/ AddTxEqualities
    \/ QueryInst
    \/ Return
    \/ Raise
    \/ \E missing_policy \in MissingPolicies : Aggregate(missing_policy)

SpecOps == Init /\ [][NextOps]_vars

\* A load defining s, then an icmp eq of s and the constant 0 defining c; the
\* path condition is c == const:i1:1; no transmitters.
TiePath ==
    /\ Len(insts) = 2
    /\ insts[1].op = "load" /\ insts[2].op = "icmp"
    /\ insts[2].uses = <<insts[1].def_id, "const:i2:0">>
    /\ NoTransmitters(insts)
    /\ path_conditions = << <<Part(insts[2].def_id, "==", "const:i1:1")>> >>

\* C11: on the path of a load of s and c = icmp eq s, 0 with path condition
\* c == const:i1:1, analyze_path completes and returns false for s and for c.
PathConditionTie ==
    TiePath =>
        /\ pc # "raised"
        /\ (AtReturn /\ SolverDecided)
              => /\ Len(results) = 2
                 /\ \A k \in DOMAIN results : results[k].public = False

\* The path condition names one variable, unbound by the instructions, first
\* against a 1-bit and then against a 2-bit constant.
WidenPath ==
    /\ path_conditions = WidenCond
    /\ \A i \in DOMAIN insts : insts[i].def_id # "v" /\ \A j \in DOMAIN insts[i].uses :
                                                          insts[i].uses[j] # "v"

\* What the encoder asserts for WidenCond on a state that binds v to e
WidenedAtoms(e) ==
    << <<"eq", e, <<"bv", 0, 1>> >>, <<"eq", <<"zext", 1, e>>, <<"bv", 0, 2>> >> >>

\* C12: asserting v == const:i1:0 for an unbound v binds v as a 1-bit symbol,
\* and the following v == const:i2:0 on the same state compares the
\* zero-extension of v to 2 bits with the constant; nothing raises.
WidthCoercion ==
    WidenPath =>
        /\ pc = "raised" => idx <= Len(insts)
        /\ pc \in { "cond_b", "tx", "query" } =>
              /\ IsFreshSymbol(state_a.env["v"]) /\ Size(state_a.env["v"]) = 1
              /\ SubSeq(assertions, 1, 2) = WidenedAtoms(state_a.env["v"])
        /\ pc \in { "tx", "query" } =>
              /\ IsFreshSymbol(state_b.env["v"]) /\ Size(state_b.env["v"]) = 1
              /\ SubSeq(assertions, 3, 4) = WidenedAtoms(state_b.env["v"])

WidthCoercionWitness ==
    /\ WidenPath /\ AtReturn
    /\ Len(assertions) = 4
    /\ assertions[2][2] = <<"zext", 1, state_a.env["v"]>>
    /\ assertions[4][2] = <<"zext", 1, state_b.env["v"]>>

\* The last instruction of the path under analysis
LastInst == insts[Len(insts)]

\* The instruction loop has just finished and its last instruction is a phi
\* with two incoming pairs (v0,b0),(v1,b1), b0 # b1, that defines a value.
PhiLast ==
    /\ pc = "cond_a" /\ insts # <<>>
    /\ LastInst.op = "phi" /\ LastInst.def_id # None
    /\ Len(LastInst.uses) = 4
    /\ LastInst.uses[2] # LastInst.uses[4]

\* def_id is bound, in both states, to what val_id evaluates to there
PhiBinds(def_id, val_id) ==
    \A st \in { state_a, state_b } :
        /\ def_id \in DOMAIN st.env /\ val_id \in DOMAIN st.env
        /\ st.env[def_id] = st.env[val_id]

\* C13: a phi with incoming (v0,b0),(v1,b1) binds its def to the evaluation of
\* v1 when the previous block is b1, and to the evaluation of v0 when the
\* previous block is unknown or matches no incoming block.
PhiResolution ==
    PhiLast =>
        /\ prev_bb = LastInst.uses[4] =>
              PhiBinds(LastInst.def_id, LastInst.uses[3])
        /\ (prev_bb = None \/ prev_bb \notin { LastInst.uses[2], LastInst.uses[4] }) =>
              PhiBinds(LastInst.def_id, LastInst.uses[1])

\* The previous block is b1 and v1 was defined there, distinct from v0
PhiResolutionWitness ==
    /\ PhiLast
    /\ prev_bb = LastInst.uses[4]
    /\ PhiBinds(LastInst.def_id, LastInst.uses[3])
    /\ LastInst.uses[1] \notin DOMAIN state_a.env

\* The instructions of the path that carry a transmitter tag
TaggedInsts == { i \in DOMAIN insts : HasTx(insts[i]) }

\* A(uses[which]) == B(uses[which]) for the tagged instruction at position i
TxEquality(i) ==
    LET op_id == insts[i].uses[insts[i].tx.which + 1]
    IN  EqExpr(_eval_operand(state_a, op_id, PtrWidth, PtrWidth).val,
               _eval_operand(state_b, op_id, PtrWidth, PtrWidth).val)

\* C14: while the publicness queries of a path are made, the solver holds,
\* for every instruction of the path tagged as a transmitter, the equality of
\* the transmitted operand in state A and in state B.
TransmitterEqualities ==
    pc = "query" =>
        \A i \in TaggedInsts :
            /\ insts[i].tx.which < Len(insts[i].uses)
            /\ \E k \in DOMAIN assertions : assertions[k] = TxEquality(i)

\* Two tagged instructions with different operands, queries under way
TransmitterEqualitiesWitness ==
    /\ pc = "query" /\ idx > 1
    /\ \E i, j \in TaggedInsts :
          /\ i # j /\ TxEquality(i) # TxEquality(j)
          /\ \E k \in DOMAIN assertions : assertions[k] = TxEquality(i)
          /\ \E k \in DOMAIN assertions : assertions[k] = TxEquality(j)

\* The k-th atom of the path condition with its tokens resolved in state st
AtomOn(st, k) ==
    _build_cmp_expr(st, Parts(path_conditions)[k].lhs, Parts(path_conditions)[k].rhs,
                    Parts(path_conditions)[k].op, PtrWidth).val

\* C15: when the publicness queries start, the solver holds each atom of the
\* path condition exactly twice, first all atoms resolved in state A and then
\* all atoms resolved in state B, followed only by the transmitter equalities.
PathConditionTwice ==
    pc = "query" =>
        /\ Len(assertions) = 2 * Len(Parts(path_conditions)) + Len(tx_equalities)
        /\ \A k \in DOMAIN Parts(path_conditions) :
              /\ assertions[k] = AtomOn(state_a, k)
              /\ \A y \in Syms(assertions[k]) : y[1][1] = "A"
              /\ assertions[Len(Parts(path_conditions)) + k] = AtomOn(state_b, k)
              /\ \A y \in Syms(assertions[Len(Parts(path_conditions)) + k]) : y[1][1] = "B"
        /\ SubSeq(assertions, 2 * Len(Parts(path_conditions)) + 1, Len(assertions))
              = tx_equalities

\* Two atoms and two transmitter equalities asserted, queries under way
PathConditionTwiceWitness ==
    /\ pc = "query"
    /\ Len(Parts(path_conditions)) = 2 /\ Len(tx_equalities) = 2
    /\ Len(assertions) = 6
    /\ \A k \in 1 .. 4 : Syms(assertions[k]) # {}

\* The instruction loop of the call is over
Evaluated == pc \in { "cond_a", "cond_b", "tx", "query" }

\* The opcodes _eval_inst has a branch for
KnownOps ==
    ArithOps \cup { "alloca", "load", "store", "icmp", "zext", "sext", "trunc", "select",
                    "getelementptr", "phi", "call" }

\* C18: once the instructions of a path are evaluated, the def_id of every
\* instruction that has one is bound in both states, whatever the opcode; and
\* an instruction with an opcode the evaluator does not know never raises.
DefinedValuesBound ==
    /\ Evaluated =>
          \A i \in DOMAIN insts :
              insts[i].def_id # None =>
                  /\ insts[i].def_id \in DOMAIN state_a.env
                  /\ insts[i].def_id \in DOMAIN state_b.env
    /\ (pc = "raised" /\ idx <= Len(insts)) => insts[idx].op \in KnownOps

\* The same, for every opcode but store
DefinedValuesBoundButStore ==
    /\ Evaluated =>
          \A i \in DOMAIN insts :
              (insts[i].def_id # None /\ insts[i].op # "store") =>
                  /\ insts[i].def_id \in DOMAIN state_a.env
                  /\ insts[i].def_id \in DOMAIN state_b.env
    /\ (pc = "raised" /\ idx <= Len(insts)) => insts[idx].op \in KnownOps

\* The program points named by a coverage record or by the pp_seq of a path
Points ==
    { <<pp_coverage[i].fn, pp_coverage[i].pp>> : i \in DOMAIN pp_coverage }
        \cup UNION { { <<paths[i].fn, paths[i].pp_seq[j]>> : j \in DOMAIN paths[i].pp_seq } :
                     i \in DOMAIN paths }

\* The coverage records of a point
CoverageOf(k) ==
    { i \in DOMAIN pp_coverage : pp_coverage[i].fn = k[1] /\ pp_coverage[i].pp = k[2] }

\* The ids of the paths of the function whose pp_seq contains the point
Traversing(k) ==
    { paths[i].path_id : i \in { n \in DOMAIN paths :
                                   /\ paths[n].fn = k[1] /\ paths[n].path_id # NoPathId
                                   /\ \E j \in DOMAIN paths[n].pp_seq :
                                         paths[n].pp_seq[j] = k[2] } }

\* The path ids of a point are those of its coverage record
FromCoverage(k) ==
    /\ k \in DOMAIN _build_pp_paths(paths, pp_coverage)
    /\ \E i \in CoverageOf(k) :
          _build_pp_paths(paths, pp_coverage)[k].path_ids = pp_coverage[i].path_ids

\* The path ids of a point are derived from pp_seq, each id once
FromPpSeq(k) ==
    /\ k \in DOMAIN _build_pp_paths(paths, pp_coverage)
    /\ { _build_pp_paths(paths, pp_coverage)[k].path_ids[n] :
           n \in DOMAIN _build_pp_paths(paths, pp_coverage)[k].path_ids } = Traversing(k)
    /\ Len(_build_pp_paths(paths, pp_coverage)[k].path_ids) = Cardinality(Traversing(k))

\* C19: in an aggregation, a point with a coverage record takes its path ids
\* from the record; a point without one takes the ids of the paths of its
\* function whose pp_seq contains it, each id once.
CoverageDerivation ==
    pc = "aggregated" =>
        \A k \in Points :
            /\ CoverageOf(k) # {} => FromCoverage(k)
            /\ (CoverageOf(k) = {} /\ Traversing(k) # {}) => FromPpSeq(k)

\* The same, deriving only when there is no coverage record at all
CoverageDerivationWhole ==
    pc = "aggregated" =>
        \A k \in Points :
            /\ CoverageOf(k) # {} => FromCoverage(k)
            /\ (pp_coverage = <<>> /\ Traversing(k) # {}) => FromPpSeq(k)
            /\ (pp_coverage # <<>> /\ CoverageOf(k) = {}) =>
                  /\ k \notin DOMAIN _build_pp_paths(paths, pp_coverage)
                  /\ \A r \in out.points : <<r.fn, r.pp>> # k

-----------------------------------------------------------------------------
(* Structured path conditions: ConstraintBuilder (constraints.py) as        *)
(* check_paths drives it, and the engine's _add_path_condition_json.        *)

\* ConstraintBuilder.add_constraint: the string is recorded and pushed to the
\* DummySolver, which stores it. A string of one atom is <<Part(lhs, op, rhs)>>.
add_constraint(cs, cond) == Append(cs, cond)

\* ConstraintBuilder._add_expr: [constraints, raised]
RECURSIVE _add_expr(_, _)
RECURSIVE AddExprTerms(_, _)
_add_expr(cs, expr) ==
    IF JsonGet(expr, "op") = "and"
    THEN AddExprTerms(cs, IF "terms" \in DOMAIN expr THEN expr.terms ELSE <<>>)
    ELSE IF JsonGet(expr, "op") \in { "==", "!=" }
    THEN IF /\ "lhs" \in DOMAIN expr /\ expr.lhs # ""
            /\ "rhs" \in DOMAIN expr /\ expr.rhs # ""
         THEN [constraints |-> add_constraint(cs, <<Part(expr.lhs, expr.op, expr.rhs)>>),
               raised |-> FALSE]
         ELSE [constraints |-> cs, raised |-> FALSE]
    ELSE [constraints |-> cs, raised |-> TRUE]

AddExprTermsRest(r, rest) ==
    IF r.raised THEN r ELSE AddExprTerms(r.constraints, rest)

AddExprTerms(cs, terms) ==
    IF terms = <<>> THEN [constraints |-> cs, raised |-> FALSE]
    ELSE AddExprTermsRest(_add_expr(cs, Head(terms)), Tail(terms))

\* ConstraintBuilder.add_path_conditions on a fresh builder
add_path_conditions(path) ==
    IF path.path_cond_json # <<>> THEN AddExprTerms(<<>>, path.path_cond_json)
    ELSE [constraints |-> path.path_cond, raised |-> FALSE]

JsonEq(lhs, rhs) == [op |-> "==", lhs |-> lhs, rhs |-> rhs]
JsonNe(lhs, rhs) == [op |-> "!=", lhs |-> lhs, rhs |-> rhs]
JsonAnd(terms) == [op |-> "and", terms |-> terms]

\* Structured conditions as the pass may emit them in path_cond_json, with the
\* malformed nodes: empty or missing operand, unsupported operator.
JsonChoices ==
    { << JsonEq("a", "const:i2:1") >>,
      << JsonNe("a", "const:i2:0") >>,
      << JsonAnd(<< JsonEq("a", "const:i2:1"), JsonNe("z", "const:i2:0") >>) >>,
      << JsonEq("a", "const:i2:1"), JsonNe("z", "const:i2:0") >>,
      << JsonEq("", "const:i2:1") >>,
      << JsonNe("a", "") >>,
      << [op |-> "==", rhs |-> "const:i2:1"] >>,
      << JsonAnd(<< JsonEq("a", "const:i2:1"), [op |-> "!=", lhs |-> "z"] >>) >>,
      << [op |-> "<", lhs |-> "a", rhs |-> "const:i2:1"] >>,
      << JsonAnd(<< JsonAnd(<< JsonEq("z", "const:i2:0") >>), JsonEq("a", "a") >>) >> }

\* The CfgPath fields the condition encoders read
CondPath(path_cond, path_cond_json) ==
    [fn |-> "u", path_id |-> 1, pp_seq |-> <<"pp1">>,
     path_cond |-> path_cond, path_cond_json |-> path_cond_json]

EncPaths ==
    { CondPath(<<>>, j) : j \in JsonChoices }
        \cup { CondPath(WidenCond, <<>>), CondPath(WidenCond, << JsonEq("a", "const:i2:1") >>) }

\* analyze_path called with a path's instructions and both of its conditions
EncInputs ==
    { [insts |-> ProgUnknownOp, path_conditions |-> path.path_cond,
       path_conditions_json |-> path.path_cond_json] : path \in EncPaths }

\* check_paths, one iteration: a fresh ConstraintBuilder over a DummySolver
\* takes the path's conditions.
CheckPath(path) ==
    /\ builder_path' = path
    /\ constraints' = add_path_conditions(path).constraints
    /\ builder_pc' = IF add_path_conditions(path).raised THEN "raised" ELSE "done"
    /\ UNCHANGED <<engine, call, driver, agg, path_conditions_json, emitter, joiner>>

NextEnc ==
    \/ \E path \in EncPaths : CheckPath(path)
    \/ \E input \in EncInputs : Start(input)
    \/ ExecInst
    \/ AddPathConditionsA
    \/ AddPathConditionsB
    \/ AddTxEqualities
    \/ QueryInst
    \/ Return
    \/ Raise

SpecEnc == Init /\ [][NextEnc]_vars

\* The nodes of structured conditions that are not conjunctions
RECURSIVE JsonAtoms(_)
JsonAtoms(terms) ==
    IF terms = <<>> THEN <<>>
    ELSE IF JsonGet(Head(terms), "op") = "and"
    THEN JsonAtoms(IF "terms" \in DOMAIN Head(terms) THEN Head(terms).terms ELSE <<>>)
             \o JsonAtoms(Tail(terms))
    ELSE <<Head(terms)>> \o JsonAtoms(Tail(terms))

\* How many atoms the conditions in force hold
AtomCount(conds, conds_json) ==
    IF conds_json # <<>> THEN Len(JsonAtoms(conds_json)) ELSE Len(Parts(conds))

\* C16: an encoder that did not raise has produced one constraint or
\* assertion per atom of the path condition, in ConstraintBuilder and, for
\* each of the two states, in the engine.
EncoderFailsLoudly ==
    /\ builder_pc = "done" =>
          Len(constraints) = IF builder_path.path_cond_json # <<>>
                             THEN Len(JsonAtoms(builder_path.path_cond_json))
                             ELSE Len(builder_path.path_cond)
    /\ pc = "cond_b" =>
          Len(assertions) = AtomCount(path_conditions, path_conditions_json)
    /\ pc = "tx" =>
          Len(assertions) = 2 * AtomCount(path_conditions, path_conditions_json)

\* The same for the engine alone
EngineFailsLoudly ==
    /\ pc = "cond_b" =>
          Len(assertions) = AtomCount(path_conditions, path_conditions_json)
    /\ pc = "tx" =>
          Len(assertions) = 2 * AtomCount(path_conditions, path_conditions_json)

-----------------------------------------------------------------------------
(* emit_path_publicness_symexec (analyze.py): one engine, every path bundle *)
(* of the pipeline in turn, the verdicts written to the output file.        *)

\* A PathBundle of the pipeline: the CfgPath fields the driver reads, and insts
EmitBundleJson(pid, path_insts, path_cond, path_cond_json) ==
    [path |-> [fn |-> path_insts[1].fn, path_id |-> pid, path_cond |-> path_cond,
               path_cond_json |-> path_cond_json],
     insts |-> path_insts]

EmitBundle(pid, path_insts, path_cond) == EmitBundleJson(pid, path_insts, path_cond, <<>>)

UnknownOpCond == << <<Part("a", "<", "const:i2:1")>> >>

\* Pipelines: paths that encode, paths whose condition has an atom that is
\* neither == nor != (an unknown operator), and a path without a path id.
EmitPipes ==
    { <<>>,
      << EmitBundle(NoPathId, ProgUnknownOp, <<>>) >>,
      << EmitBundle(1, ProgUnknownOp, <<>>) >>,
      << EmitBundle(1, ProgTwoTx, TwoCond) >>,
      << EmitBundle(2, ProgPhi, <<>>) >>,
      << EmitBundle(3, ProgTie, <<>>) >>,
      << EmitBundle(1, ProgUnknownOp, UnknownOpCond) >>,
      << EmitBundle(1, ProgStoreDef, <<>>), EmitBundle(2, ProgUnknownOp, WidenCond) >>,
      << EmitBundle(1, ProgTwoTx, UnknownOpCond), EmitBundle(2, ProgPhiOther, <<>>) >>,
      << EmitBundle(1, ProgUnknownOp, UnknownOpCond), EmitBundle(2, ProgUnknownOp, <<>>) >>,
      << EmitBundle(1, ProgUnknownOp, <<>>), EmitBundle(2, ProgUnknownOp, UnknownOpCond) >>,
      << EmitBundle(NoPathId, ProgUnknownOp, <<>>), EmitBundle(2, ProgTwoTx, TwoCond) >>,
      << EmitBundle(1, ProgPhi, <<>>), EmitBundle(2, ProgTwoTx, <<>>) >>,
      << EmitBundleJson(1, ProgUnknownOp, <<>>, << JsonEq("a", "const:i2:1") >>) >>,
      << EmitBundleJson(1, ProgUnknownOp, WidenCond, << JsonEq("a", "const:i2:1") >>) >> }

\* lines 43-45: the pipeline is built, the engine made, the file opened
EmitStart(path_bundles) ==
    /\ emit_pc = "idle"
    /\ pipe_paths' = path_bundles
    /\ emit_idx' = 1
    /\ written' = <<>>
    /\ emit_pc' = "loop"
    /\ UNCHANGED <<engine, call, driver, agg, path_conditions_json, builder, joiner>>

\* lines 48-50: a bundle without a path id is passed over
EmitSkip ==
    /\ emit_pc = "loop" /\ pc = "idle"
    /\ emit_idx <= Len(pipe_paths)
    /\ pipe_paths[emit_idx].path.path_id = NoPathId
    /\ emit_idx' = emit_idx + 1
    /\ UNCHANGED <<engine, call, driver, agg, path_conditions_json, builder, joiner,
                   pipe_paths, written, emit_pc>>

\* lines 51-55: analyze_path is called with the text conditions only
EmitCall ==
    /\ emit_pc = "loop"
    /\ emit_idx <= Len(pipe_paths)
    /\ pipe_paths[emit_idx].path.path_id # NoPathId
    /\ Start([insts |-> pipe_paths[emit_idx].insts,
              path_conditions |-> pipe_paths[emit_idx].path.path_cond,
              path_id |-> pipe_paths[emit_idx].path.path_id])

\* lines 51-64: analyze_path returns the pair (results, summary) and the loop
\* 'for r in results' runs over that pair; its first element is the list of
\* verdicts, which has no attribute fn, so building the first record raises
\* AttributeError before anything is written. Nothing catches it.
EmitReturn ==
    /\ emit_pc = "loop"
    /\ pc = "query" /\ idx > Len(insts)
    /\ summary' = [fn |-> IF insts # <<>> THEN insts[1].fn ELSE "",
                   path_id |-> path_id,
                   inst_count |-> Len(insts),
                   def_count |-> Cardinality({ i \in DOMAIN insts : insts[i].def_id # None })]
                  @@ stats
    /\ calls' = calls + 1
    /\ pc' = "idle"
    /\ emit_pc' = "crashed"
    /\ UNCHANGED <<engine, path_id, insts, path_conditions, state_a, state_b,
                   tx_equalities, prev_bb, current_bb, assertions, base_key, idx,
                   results, stats, unknown_left, bundles, agg, path_conditions_json,
                   builder, joiner, pipe_paths, emit_idx, written>>

\* lines 51-55: analyze_path raised; there is no handler, the driver ends
EmitRaise ==
    /\ emit_pc = "loop"
    /\ pc = "raised"
    /\ calls' = calls + 1
    /\ pc' = "idle"
    /\ emit_pc' = "crashed"
    /\ UNCHANGED <<engine, path_id, insts, path_conditions, state_a, state_b,
                   tx_equalities, prev_bb, current_bb, assertions, base_key, idx,
                   results, stats, summary, unknown_left, bundles, agg,
                   path_conditions_json, builder, joiner, pipe_paths, emit_idx, written>>

\* the loops are over, the file is closed
EmitDone ==
    /\ emit_pc = "loop" /\ pc = "idle"
    /\ emit_idx > Len(pipe_paths)
    /\ emit_pc' = "done"
    /\ UNCHANGED <<engine, call, driver, agg, path_conditions_json, builder, joiner,
                   pipe_paths, emit_idx, written>>

NextEmit ==
    \/ \E path_bundles \in EmitPipes : EmitStart(path_bundles)
    \/ EmitSkip
    \/ EmitCall
    \/ ExecInst
    \/ AddPathConditionsA
    \/ AddPathConditionsB
    \/ AddTxEqualities
    \/ QueryInst
    \/ EmitReturn
    \/ EmitRaise
    \/ EmitDone

SpecEmit == Init /\ [][NextEmit]_vars

\* The text condition of a bundle has only supported operators
Encodes(b) ==
    \A k \in DOMAIN Parts(b.path.path_cond) :
        Parts(b.path.path_cond)[k].op \in { "==", "!=" }

\* The bundle has a path id and defines at least one value
Emits(b) ==
    /\ b.path.path_id # NoPathId
    /\ \E i \in DOMAIN b.insts : b.insts[i].def_id # None

\* C17: when the driver has ended, a path whose condition does not encode has
\* no verdict in the output, and every other path that defines a value has
\* its verdicts there.
EncodingErrorFatalToPathOnly ==
    emit_pc \in { "done", "crashed" } =>
        \A k \in DOMAIN pipe_paths :
            /\ ~Encodes(pipe_paths[k]) =>
                  \A w \in DOMAIN written :
                      written[w].path_id # pipe_paths[k].path.path_id
            /\ (Encodes(pipe_paths[k]) /\ Emits(pipe_paths[k])) =>
                  \E w \in DOMAIN written :
                      written[w].path_id = pipe_paths[k].path.path_id

-----------------------------------------------------------------------------
(* build_pipeline (pipeline.py): the per-function join of trace and paths.  *)

\* by_fn[fn] (lines 52-54) and bb_insts[bb] (lines 80-82): in trace order
RECURSIVE Filter(_, _, _)
Filter(seq, field, v) ==
    IF seq = <<>> THEN <<>>
    ELSE IF Head(seq)[field] = v THEN <<Head(seq)>> \o Filter(Tail(seq), field, v)
    ELSE Filter(Tail(seq), field, v)

\* inst_by_pp.get(pp) (line 83): the last instruction of the function at pp
inst_by_pp(fn_insts, pp) ==
    LET at == { i \in DOMAIN fn_insts : fn_insts[i].pp = pp }
    IN  IF at = {} THEN <<>> ELSE <<fn_insts[Last(at)]>>

\* lines 88-91: the instructions along pp_seq, absent program points skipped
RECURSIVE ByPpSeq(_, _)
ByPpSeq(fn_insts, pp_seq) ==
    IF pp_seq = <<>> THEN <<>>
    ELSE inst_by_pp(fn_insts, Head(pp_seq)) \o ByPpSeq(fn_insts, Tail(pp_seq))

\* lines 93-94: the blocks' instructions along bbs
RECURSIVE ByBlocks(_, _)
ByBlocks(fn_insts, bbs) ==
    IF bbs = <<>> THEN <<>>
    ELSE Filter(fn_insts, "bb", Head(bbs)) \o ByBlocks(fn_insts, Tail(bbs))

\* p_insts without the pp_seq branch: always the concatenation over bbs
p_insts_ByBlocks(fn_insts, p) ==
    ByBlocks(fn_insts, p.bbs)

\* lines 87-94: the instruction list of one path
p_insts(fn_insts, p) ==
    IF p.pp_seq # <<>> THEN ByPpSeq(fn_insts, p.pp_seq)
    ELSE ByBlocks(fn_insts, p.bbs)

\* lines 85-95: one PathBundle per path of the function, in input order
path_bundles_of(fn_insts, fn_paths) ==
    [k \in DOMAIN fn_paths |-> [path |-> fn_paths[k], insts |-> p_insts(fn_insts, fn_paths[k])]]

\* lines 76-109: fn -> the FunctionPipeline fields of the join
build_pipeline(tr, ps) ==
    [fn \in { tr[i].fn : i \in DOMAIN tr } \cup { ps[i].fn : i \in DOMAIN ps } |->
        [fn |-> fn,
         insts |-> Filter(tr, "fn", fn),
         paths |-> path_bundles_of(Filter(tr, "fn", fn), Filter(ps, "fn", fn))]]

\* A trace record; the join reads fn, bb and pp only
JoinInst(fn, bb, pp) == TraceInst(fn, bb, pp, "add", "d", <<"a", "b">>, NoTx, "i2", <<>>)

\* Traces with program points unique within a function: a block whose
\* instructions are not contiguous, two functions interleaved.
TraceChoices ==
    { <<>>,
      << JoinInst("f", "b0", "pp0"), JoinInst("f", "b1", "pp1"), JoinInst("f", "b0", "pp2") >>,
      << JoinInst("f", "b0", "pp0"), JoinInst("g", "b0", "pp0"), JoinInst("f", "b1", "pp1"),
         JoinInst("g", "b1", "pp2") >>,
      << JoinInst("g", "b1", "pp1"), JoinInst("f", "b1", "pp2"), JoinInst("f", "b0", "pp1") >>,
      << JoinInst("f", "b1", "pp1") >> }

\* A path record with the fields the join reads, and its conditions
JoinPath(fn, pid, bbs, pp_seq) ==
    [fn |-> fn, path_id |-> pid, bbs |-> bbs, pp_seq |-> pp_seq,
     path_cond |-> <<>>, path_cond_json |-> <<>>]

JoinPaths ==
    { JoinPath("f", 1, <<"b0", "b1">>, <<>>),
      JoinPath("f", 2, <<"b1", "b0", "b1">>, <<>>),
      JoinPath("f", 3, <<"b0", "b1">>, <<"pp2", "pp9", "pp0", "pp2">>),
      JoinPath("g", 4, <<"b9", "b0">>, <<>>),
      JoinPath("g", 5, <<"b0">>, <<"pp1", "pp0">>),
      JoinPath("h", 6, <<"b0">>, <<"pp0">>) }

MaxPaths == 2

PathLists ==
    UNION { [1 .. n -> JoinPaths] : n \in 0 .. MaxPaths }

InitJoin ==
    /\ InitCall
    /\ enable_query_cache = TRUE
    /\ unknown_left = MaxUnknown
    /\ paths = <<>>
    /\ pp_coverage = <<>>
    /\ path_results = <<>>
    /\ trace \in TraceChoices
    /\ cfg_paths \in PathLists

\* build_pipeline on the loaded inputs
BuildPipeline ==
    /\ join_pc = "idle"
    /\ pipes' = build_pipeline(trace, cfg_paths)
    /\ join_pc' = "built"
    /\ UNCHANGED <<engine, call, driver, agg, path_conditions_json, builder, emitter,
                   trace, cfg_paths>>

NextJoin == BuildPipeline

SpecJoin == InitJoin /\ [][NextJoin]_vars

\* The positions of the trace that hold instructions of a function
TraceIdx(fn) == { i \in DOMAIN trace : trace[i].fn = fn }

\* The positions of pp_seq whose program point occurs in the function's trace
PresentPps(fn, p) ==
    { n \in DOMAIN p.pp_seq : \E i \in TraceIdx(fn) : trace[i].pp = p.pp_seq[n] }

\* b.insts is the function's trace taken along pp_seq, absent points skipped
AlongPpSeq(fn, b) ==
    /\ Len(b.insts) = Cardinality(PresentPps(fn, b.path))
    /\ \A n \in PresentPps(fn, b.path) :
          /\ b.insts[Cardinality({ m \in PresentPps(fn, b.path) : m <= n })].pp
                = b.path.pp_seq[n]
          /\ \E i \in TraceIdx(fn) :
                b.insts[Cardinality({ m \in PresentPps(fn, b.path) : m <= n })] = trace[i]

\* <<j, i>>: the trace position i lies in the j-th block of the path
BlockSlots(fn, p) ==
    { s \in (DOMAIN p.bbs) \X TraceIdx(fn) : trace[s[2]].bb = p.bbs[s[1]] }

\* b.insts is the blocks of bbs in path order, each in trace order
AlongBlocks(fn, b) ==
    /\ Len(b.insts) = Cardinality(BlockSlots(fn, b.path))
    /\ \A s \in BlockSlots(fn, b.path) :
          b.insts[Cardinality({ t \in BlockSlots(fn, b.path) :
                                  t[1] < s[1] \/ (t[1] = s[1] /\ t[2] <= s[2]) })]
              = trace[s[2]]

\* The positions of the input paths that belong to a function
PathIdx(fn) == { i \in DOMAIN cfg_paths : cfg_paths[i].fn = fn }

\* C20: after the join, every input path has one bundle in its function's
\* pipeline, in input order, carrying the path record as it was read; the
\* bundle's instructions are trace records of that function: along pp_seq
\* (absent points skipped) when pp_seq is non-empty, else block by block
\* along bbs, each block in trace order.
PerFunctionJoin ==
    join_pc = "built" =>
        /\ \A i \in DOMAIN cfg_paths : cfg_paths[i].fn \in DOMAIN pipes
        /\ \A fn \in DOMAIN pipes :
              /\ Len(pipes[fn].paths) = Cardinality(PathIdx(fn))
              /\ \A i \in PathIdx(fn) :
                    pipes[fn].paths[Cardinality({ m \in PathIdx(fn) : m <= i })].path
                        = cfg_paths[i]
              /\ \A k \in DOMAIN pipes[fn].paths :
                    IF pipes[fn].paths[k].path.pp_seq # <<>>
                    THEN AlongPpSeq(fn, pipes[fn].paths[k])
                    ELSE AlongBlocks(fn, pipes[fn].paths[k])

\* One function with a path along pp_seq that repeats a point and names an
\* absent one, and a path along bbs over a block that is not contiguous
PerFunctionJoinWitness ==
    /\ join_pc = "built"
    /\ \E fn \in DOMAIN pipes : \E j, k \in DOMAIN pipes[fn].paths :
          /\ pipes[fn].paths[j].path.pp_seq = <<"pp2", "pp9", "pp0", "pp2">>
          /\ Len(pipes[fn].paths[j].insts) = 3
          /\ [n \in 1 .. 3 |-> pipes[fn].paths[j].insts[n].pp] = <<"pp2", "pp0", "pp2">>
          /\ pipes[fn].paths[k].path.pp_seq = <<>>
          /\ pipes[fn].paths[k].path.bbs = <<"b0", "b1">>
          /\ Len(pipes[fn].paths[k].insts) = 3
          /\ [n \in 1 .. 3 |-> pipes[fn].paths[k].insts[n].pp] = <<"pp0", "pp2", "pp1">>

-----------------------------------------------------------------------------
(* Structured conditions take precedence over the textual ones.             *)

\* The k-th atom of structured conditions with its tokens resolved in state st
JsonAtomOn(st, conds_json, k) ==
    _build_cmp_expr(st, JsonAtoms(conds_json)[k].lhs, JsonAtoms(conds_json)[k].rhs,
                    JsonAtoms(conds_json)[k].op, PtrWidth).val

\* After the pass on state A the solver holds the atoms of conds_json only
AssertsOnlyJson(conds_json) ==
    /\ Len(assertions) = Len(JsonAtoms(conds_json))
    /\ \A k \in DOMAIN JsonAtoms(conds_json) :
          assertions[k] = JsonAtomOn(state_a, conds_json, k)

\* ConstraintBuilder and the engine called with both forms of the condition
StructuredPrecedenceDirect ==
    /\ (builder_pc = "done" /\ builder_path.path_cond_json # <<>>) =>
          /\ Len(constraints) <= Len(JsonAtoms(builder_path.path_cond_json))
          /\ \A c \in DOMAIN constraints :
                \E k \in DOMAIN JsonAtoms(builder_path.path_cond_json) :
                    constraints[c] = << Part(JsonAtoms(builder_path.path_cond_json)[k].lhs,
                                             JsonAtoms(builder_path.path_cond_json)[k].op,
                                             JsonAtoms(builder_path.path_cond_json)[k].rhs) >>
    /\ (pc = "cond_b" /\ path_conditions_json # <<>>) =>
          AssertsOnlyJson(path_conditions_json)

\* The path the driver is analysing has structured conditions
DriverPathJson ==
    /\ emit_pc = "loop" /\ pc = "cond_b"
    /\ pipe_paths[emit_idx].path.path_cond_json # <<>>

\* C21: when a path has structured conditions, its assertions come from them
\* only and its textual conditions contribute none: in ConstraintBuilder, in
\* the engine, and for a path analysed through the symexec driver.
StructuredPrecedence ==
    /\ StructuredPrecedenceDirect
    /\ DriverPathJson => AssertsOnlyJson(pipe_paths[emit_idx].path.path_cond_json)

-----------------------------------------------------------------------------
(* Comparisons of bit-vectors of different widths in the path condition.    *)

\* The atoms that compare a value an instruction has defined with an integer
\* constant narrower than the value
WiderThanConst ==
    { k \in DOMAIN Parts(path_conditions) :
        /\ Parts(path_conditions)[k].lhs \in { insts[i].def_id : i \in DOMAIN insts }
        /\ Parts(path_conditions)[k].lhs \in DOMAIN state_a.env
        /\ IsBv(state_a.env[Parts(path_conditions)[k].lhs])
        /\ Parts(path_conditions)[k].rhs \in ConstIntTokens
        /\ Parts(path_conditions)[k].op \in { "==", "!=" }
        /\ ConstTokWidth(Parts(path_conditions)[k].rhs)
              < Size(state_a.env[Parts(path_conditions)[k].lhs]) }

\* C22: an atom comparing a bound value with a narrower constant asserts the
\* comparison of the whole value with the constant zero-extended to the
\* value's width; no bit of the wider operand is cut away.
MixedWidthZeroExtends ==
    pc = "cond_b" =>
        \A k \in WiderThanConst :
            /\ assertions[k][2] = state_a.env[Parts(path_conditions)[k].lhs]
            /\ assertions[k][3]
                  = ZeroExt(Size(state_a.env[Parts(path_conditions)[k].lhs])
                               - ConstTokWidth(Parts(path_conditions)[k].rhs),
                            BitVecVal(ConstTokValue(Parts(path_conditions)[k].rhs),
                                      ConstTokWidth(Parts(path_conditions)[k].rhs)))

-----------------------------------------------------------------------------
(* Integer compares, memory, accounting.                                    *)

\* The predicate of an icmp record, eq when the record names none
PredOf(inst) ==
    IF "icmp_pred" \in DOMAIN inst /\ inst.icmp_pred # None THEN inst.icmp_pred ELSE "eq"

\* The 1-bit result of the predicate between the operands a and b
IcmpResult(pred, a, b) ==
    IfExpr(_icmp_pred(pred, a, b, pred \in { "slt", "sle", "sgt", "sge" }),
           BitVecVal(1, 1), BitVecVal(0, 1))

\* C23: evaluating an icmp never raises, and once the instructions are
\* evaluated the def of an icmp is bound in each state to the 1-bit result of
\* its predicate between its two operands as that state holds them.
IcmpSemantics ==
    /\ (pc = "raised" /\ idx <= Len(insts)) => insts[idx].op # "icmp"
    /\ Evaluated =>
          \A i \in DOMAIN insts :
              (insts[i].op = "icmp" /\ insts[i].def_id # None) =>
                  \A st \in { state_a, state_b } :
                      /\ insts[i].def_id \in DOMAIN st.env
                      /\ st.env[insts[i].def_id]
                            = IcmpResult(PredOf(insts[i]),
                                         _eval_operand(st, insts[i].uses[1], PtrWidth,
                                                       PtrWidth).val,
                                         _eval_operand(st, insts[i].uses[2], PtrWidth,
                                                       PtrWidth).val)

\* Instruction i of the path has been evaluated in both states
Done(i) == (pc = "exec" /\ i < idx) \/ Evaluated

\* The stores to the pointer of the load at i that precede it
StoresBefore(i) ==
    { j \in 1 .. (i - 1) : /\ insts[j].op = "store" /\ Len(insts[j].uses) >= 2
                           /\ insts[j].uses[2] = insts[i].uses[1] }

\* The loads from the pointer of the load at i, up to i
LoadsUpTo(i) ==
    { j \in 1 .. i : insts[j].op = "load" /\ insts[j].uses = insts[i].uses }

\* C24: in each state a load binds its def to the value last stored under its
\* pointer, whatever was stored under other pointers in between; with no
\* store before it, it binds what the first load from the pointer bound, a
\* fresh symbol.
FlatMemory ==
    \A i \in DOMAIN insts :
        (Done(i) /\ insts[i].op = "load" /\ insts[i].def_id # None /\ insts[i].uses # <<>>) =>
            \A st \in { state_a, state_b } :
                /\ insts[i].def_id \in DOMAIN st.env
                /\ IF StoresBefore(i) # {}
                   THEN st.env[insts[i].def_id]
                           = _eval_operand(st, insts[Last(StoresBefore(i))].uses[1],
                                           PtrWidth, PtrWidth).val
                   ELSE /\ IsFreshSymbol(st.env[insts[i].def_id])
                        /\ \A j \in LoadsUpTo(i) :
                              st.env[insts[j].def_id] = st.env[insts[i].def_id]

\* A load after two stores to its pointer and one to another, and a second
\* load from a pointer never stored to
FlatMemoryWitness ==
    /\ Evaluated
    /\ \E i \in DOMAIN insts :
          /\ insts[i].op = "load" /\ Cardinality(StoresBefore(i)) = 2
          /\ \E j \in 1 .. i : insts[j].op = "store" /\ insts[j].uses[2] # insts[i].uses[1]
          /\ state_a.env[insts[i].def_id] = <<"bv", 3, 2>>
    /\ \E i \in DOMAIN insts :
          /\ insts[i].op = "load" /\ StoresBefore(i) = {} /\ Cardinality(LoadsUpTo(i)) = 2
          /\ IsFreshSymbol(state_b.env[insts[i].def_id])

\* The last analyze_path call has returned: summary and results are its own
Returned == pc = "idle" /\ calls > 0 /\ summary.path_id = path_id

\* The definitions of the path that are unbound in either state
UnboundDefs ==
    { i \in DOMAIN insts :
        /\ insts[i].def_id # None
        /\ ~(insts[i].def_id \in DOMAIN state_a.env /\ insts[i].def_id \in DOMAIN state_b.env) }

\* C25: in the summary of a call that returned, the queries are as many as
\* the definitions and as the verdicts; the three outcomes add up to the
\* queries; hits and misses add up to the queries less the definitions
\* unbound in either state; and without the cache there is no hit.
SummaryAccounting ==
    Returned =>
        /\ summary.query_count = summary.def_count
        /\ summary.query_count = Len(results)
        /\ summary.def_count = Cardinality({ i \in DOMAIN insts : insts[i].def_id # None })
        /\ summary.sat_count + summary.unsat_count + summary.unknown_count
              = summary.query_count
        /\ summary.cache_hits + summary.cache_misses
              = summary.query_count - Cardinality(UnboundDefs)
        /\ ~enable_query_cache => summary.cache_hits = 0

\* A call that returned with a hit, a miss and an unknown outcome
SummaryAccountingWitness ==
    /\ Returned
    /\ summary.cache_hits > 0 /\ summary.cache_misses > 0
    /\ summary.unknown_count > 0 /\ summary.unsat_count > 0

-----------------------------------------------------------------------------
(* Previous-block tracking.                                                 *)

\* The instruction evaluated last, when prev_bb is the block it was given
JustEvaluated == (pc = "exec" /\ idx > 1) \/ (pc = "cond_a" /\ insts # <<>>)

JustIdx == IF pc = "exec" THEN idx - 1 ELSE Len(insts)

\* The block visit of the path that instruction k belongs to: told by the
\* bundle, else counted from the changes of bb in the instruction stream
VisitOf(k) ==
    IF "bb_visit" \in DOMAIN bundles[Len(bundles)] THEN bundles[Len(bundles)].bb_visit[k]
    ELSE 1 + Cardinality({ j \in 2 .. k : insts[j].bb # insts[j - 1].bb })

\* The block of the visit before the one instruction k belongs to
BlockBeforeVisit(k) ==
    IF VisitOf(k) = 1 THEN None
    ELSE insts[CHOOSE j \in 1 .. k : VisitOf(j) = VisitOf(k) - 1].bb

\* C26: the previous block given to an instruction is the block of the visit
\* before its own (None in the first visit), also when a block is re-entered
\* directly from itself.
PreviousBlockPerVisit ==
    JustEvaluated => prev_bb = BlockBeforeVisit(JustIdx)

\* Where the run of instructions with the block of instruction k begins
RunStart(k) ==
    CHOOSE r \in 1 .. k :
        /\ \A m \in r .. k : insts[m].bb = insts[k].bb
        /\ r > 1 => insts[r - 1].bb # insts[k].bb

\* What the loop keeps: the block of the last instruction before it in the
\* stream whose block differs from its own, None when there is none; a block
\* re-entered directly from itself keeps the previous block of its first visit.
PreviousBlockLastDiffering ==
    JustEvaluated =>
        /\ current_bb = insts[JustIdx].bb
        /\ prev_bb = IF RunStart(JustIdx) = 1 THEN None
                     ELSE insts[RunStart(JustIdx) - 1].bb

-----------------------------------------------------------------------------
(* What the symexec driver writes.                                          *)

\* The path_publicness record of a verdict
RecordOf(r) ==
    [kind |-> "path_publicness", fn |-> r.fn, path_id |-> r.path_id, pp |-> r.pp,
     value |-> r.value, public |-> r.public]

\* C27: when the driver has taken the verdicts of a call that returned, the
\* output ends with exactly one record per verdict of that call, in the
\* engine's order.
DriverOutput ==
    (emit_pc \in { "crashed", "done" } /\ Returned) =>
        /\ Len(written) >= Len(results)
        /\ \A k \in DOMAIN results :
              written[Len(written) - Len(results) + k] = RecordOf(results[k])

-----------------------------------------------------------------------------
(* Lockstep of the two symbolic states.                                    *)

\* The name of a symbol of state A as state B mints it: the state tag and the
\* exec tag inside the base name are the only places the two differ.
RetagName(name) ==
    <<"B", [i \in DOMAIN name[2] |-> IF name[2][i] = "A" THEN "B" ELSE name[2][i]],
      name[3]>>

RECURSIVE Retag(_)
Retag(e) ==
    CASE e[1] = "sym" -> <<"sym", RetagName(e[2]), e[3]>>
      [] e[1] = "bin" -> <<"bin", e[2], Retag(e[3]), Retag(e[4])>>
      [] e[1] \in { "zext", "sext" } -> <<e[1], e[2], Retag(e[3])>>
      [] e[1] = "extract" -> <<"extract", e[2], e[3], Retag(e[4])>>
      [] e[1] \in { "eq", "ne" } -> <<e[1], Retag(e[2]), Retag(e[3])>>
      [] e[1] = "ite" -> <<"ite", Retag(e[2]), Retag(e[3]), Retag(e[4])>>
      [] e[1] = "cmp" -> <<"cmp", e[2], Retag(e[3]), Retag(e[4])>>
      [] OTHER -> e

\* Both states have been through the same steps: between two instructions of
\* the loop, and from the end of the second path-condition pass onwards.
InLockstep == pc \in { "exec", "cond_a", "tx", "query" }

\* C28: whenever an instruction has been evaluated in both states (transmitter
\* operand included) and after both path-condition passes, states A and B have
\* the same environment keys, the same memory keys and the same fresh counter,
\* and every binding of B is the binding of A with the tag A replaced by B.
Lockstep ==
    InLockstep =>
        /\ DOMAIN state_a.env = DOMAIN state_b.env
        /\ DOMAIN state_a.mem = DOMAIN state_b.mem
        /\ state_a.fresh_id = state_b.fresh_id
        /\ \A k \in DOMAIN state_a.env : state_b.env[k] = Retag(state_a.env[k])
        /\ \A k \in DOMAIN state_a.mem : state_b.mem[k] = Retag(state_a.mem[k])

\* A path with a transmitter and a path condition, after both passes, whose
\* states hold bindings that differ.
LockstepWitness ==
    /\ pc = "tx"
    /\ path_conditions # <<>>
    /\ tx_equalities # <<>>
    /\ state_a.fresh_id >= 2
    /\ state_a.env # state_b.env

-----------------------------------------------------------------------------
(* Queries use the final bindings.                                         *)

\* The instructions the query loop has passed that carry a def, in order.
HasDef(inst) == inst.def_id # None

Queried == SelectSeq(SubSeq(insts, 1, idx - 1), HasDef)

\* The query of value v against the final environment and all assertions.
FinalVerdict(v) ==
    IF v \in DOMAIN state_a.env /\ v \in DOMAIN state_b.env
    THEN CheckVerdict(assertions, NeExpr(state_a.env[v], state_b.env[v]))
    ELSE None

-----------------------------------------------------------------------------
(* Cache reuse across the calls of one engine.                             *)

\* The earlier calls on this engine that were given what the call in progress
\* was given.
EarlierSame == { m \in 1 .. calls : bundles[m] = bundles[calls + 1] }

\* The verdicts call m returned.
VerdictsOf(m) == Verdicts(SelectSeq(path_results, LAMBDA r : r.path_id = m))

\* The instructions whose def is bound in both states.
BoundDefs ==
    { i \in DOMAIN insts : /\ insts[i].def_id # None
                           /\ insts[i].def_id \in DOMAIN state_a.env
                           /\ insts[i].def_id \in DOMAIN state_b.env }

\* A call that repeats an earlier one returns that call's verdicts from the cache.
SecondCallFromCache ==
    (enable_query_cache /\ AtReturn /\ EarlierSame # {}) =>
        /\ \A m \in EarlierSame : Verdicts(results) = VerdictsOf(m)
        /\ stats.cache_misses = 0
        /\ stats.cache_hits = Cardinality(BoundDefs)

\* A call that raises has run no query.
RaisedBeforeQueries == pc = "raised" => (results = <<>> /\ stats = ZeroStats)

\* The cache changes only in a query that misses.
CacheWrittenByMiss ==
    query_cache' # query_cache =>
        /\ pc = "query" /\ pc' = "query"
        /\ stats'.cache_misses = stats.cache_misses + 1

\* C30: with the query cache enabled, a call on the same engine with the
\* instruction list and path condition of an earlier call returns that call's
\* verdicts with cache_misses = 0 and cache_hits = the number of definitions
\* bound in both states; and a call that raises leaves the cache as it found it
\* (it raises before its first query, and only a missing query writes the cache).
CacheReuse ==
    /\ []SecondCallFromCache
    /\ []RaisedBeforeQueries
    /\ [][CacheWrittenByMiss]_vars

\* The second of two identical calls at its return, with a verdict served
\* from the cache.
CacheReuseWitness ==
    /\ enable_query_cache
    /\ AtReturn
    /\ calls = 1
    /\ EarlierSame = { 1 }
    /\ Len(results) >= 2
    /\ stats.cache_hits = Len(results)
    /\ \E k \in DOMAIN results : results[k].public = False

=============================================================================
